---- MODULE Spec2Model ----
(***************************************************************************)
(* Pricing pipeline of louder-pricing-intelligence.                        *)
(*                                                                         *)
(* PricingPipeline.analyze_product (backend/app/agents/pricing_pipeline.py)*)
(* with its two workflows, the ProductMatchingAgent it awaits              *)
(* (backend/app/agents/product_matching.py), the wrapper                   *)
(* PricingIntelligenceAgent.execute (backend/app/agents/                   *)
(* pricing_intelligence.py) and the batch fan-out                          *)
(* analyze_multiple_products.  Each coroutine is a process whose position  *)
(* is pc[i]; the asyncio event loop runs one coroutine at a time and       *)
(* switches only where a coroutine really suspends.                        *)
(***************************************************************************)
EXTENDS Integers, Sequences, FiniteSets, TLC

VARIABLES
    call,       \* "direct": analyze_product(inputs[1]); "batch": analyze_multiple_products(inputs)
    inputs,     \* the product_input of every run, in argument order
    pc,         \* pc[i]: position of run i inside analyze_product
    result,     \* result[i]: the run's result accumulator; the raised exception once pc[i] = "raised"
    loc,        \* loc[i]: local variables of run i (start_time, scraping_result, matching state, statistics)
    events,     \* events[i]: history of the stage operations of run i, in the order they happened
    loop,       \* the coroutine the event loop is executing, 0 when it is between coroutines
    now,        \* datetime.now(), in whole seconds
    jar,        \* cookies held by the one requests.Session of the pipeline's scraper
    sent,       \* sent[i]: the cookies run i's listing request carried
    batch,      \* the mapping returned by analyze_multiple_products
    fn          \* a call of one of the scraper's functions: its name, arguments and return value

vars == <<call, inputs, pc, result, loc, events, loop, now, jar, sent, batch, fn>>

----------------------------------------------------------------------------
(* Bounds of the model *)

\* most offers a scrape returns: the max_offers argument (25 by default)
MaxOffers == 3
\* the agent's batch_size (20 in the source) scaled so that MaxOffers offers need two batches
BatchSize == 2
\* longest list handed to analyze_multiple_products
MaxBatch == 2
\* last instant of the clock
MaxClock == 1

\* comparable offers below which the description workflow reports "Too few"
MinComparable == 3
\* comparable offers below which PricingIntelligenceAgent.execute adds the small-sample risk
SmallSample == 5

None == [kind |-> "None"]

Min(a, b) == IF a < b THEN a ELSE b

RECURSIVE SelectSeqBy(_, _)
\* list comprehension [x for x in s if x in keep]
SelectSeqBy(s, keep) ==
    IF s = <<>> THEN <<>>
    ELSE LET rest == SelectSeqBy(Tail(s), keep)
         IN IF Head(s) \in keep THEN <<Head(s)>> \o rest ELSE rest

----------------------------------------------------------------------------
(* Text: a Python str is a tuple of one-character strings *)

UpperCase == <<"A","B","C","D","E","F","G","H","I","J","K","L","M",
               "N","O","P","Q","R","S","T","U","V","W","X","Y","Z">>
LowerCase == <<"a","b","c","d","e","f","g","h","i","j","k","l","m",
               "n","o","p","q","r","s","t","u","v","w","x","y","z">>

\* str.lower() on one character
LowerChar(c) ==
    IF \E k \in 1..26 : UpperCase[k] = c
    THEN LowerCase[CHOOSE k \in 1..26 : UpperCase[k] = c]
    ELSE c

\* str.lower()
Lower(s) == [k \in 1..Len(s) |-> LowerChar(s[k])]

\* Python's `w in s` for two strings
Contains(s, w) ==
    \E k \in 1..(Len(s) - Len(w) + 1) : SubSeq(s, k, k + Len(w) - 1) = w

\* the two keyword lists of ProductMatchingAgent.classify_products
AccessoryWords ==
    { <<"f","u","n","d","a">>, <<"c","a","s","e">>, <<"c","a","b","l","e">>,
      <<"c","a","r","g","a","d","o","r">>, <<"p","r","o","t","e","c","t","o","r">>,
      <<"m","i","c","a">>, <<"g","l","a","s","s">>,
      <<"a","d","a","p","t","a","d","o","r">>, <<"b","a","s","e">>,
      <<"s","o","p","o","r","t","e">> }
BundleWords ==
    { <<"p","a","q","u","e","t","e">>, <<"c","o","m","b","o">>, <<"k","i","t">>,
      <<" ","+"," ">>, <<"i","n","c","l","u","y","e">> }

\* titles the marketplace lists: a plain product, an accessory, a bundle
TitleSony == <<"S","o","n","y"," ","X","5">>
TitleFunda == <<"F","U","N","D","A"," ","X","5">>
TitleBundle == <<"X","5"," ","+"," ","M","i","c">>
TitlePool == {TitleSony, TitleFunda, TitleBundle}

----------------------------------------------------------------------------
(* ProductMatchingAgent: the pure parts of classify_products and filter_comparable *)

\* the heuristic that classifies one offer of a batch whose model call returned
ClassifyOffer(title) ==
    LET title_lower == Lower(title)
        is_accessory == \E w \in AccessoryWords : Contains(title_lower, w)
        is_bundle == \E w \in BundleWords : Contains(title_lower, w)
    IN [title |-> title,
        is_comparable |-> ~(is_accessory \/ is_bundle),
        is_accessory |-> is_accessory,
        is_bundle |-> is_bundle]

\* number of iterations of `for i in range(0, len(offers), batch_size)`
NumBatches(offers) == (Len(offers) + BatchSize - 1) \div BatchSize

\* offers[i:i + batch_size] of iteration k (k = 0, 1, ...)
BatchOf(offers, k) ==
    SubSeq(offers, k * BatchSize + 1, Min((k + 1) * BatchSize, Len(offers)))

\* the classifications one batch adds to all_classifications
ClassifyBatchOffers(b) == [j \in 1..Len(b) |-> ClassifyOffer(b[j])]

\* filter_comparable: raw offers whose title is that of a comparable classification
FilterComparable(raw_offers, classified) ==
    LET comparable_titles ==
            {classified[j].title : j \in {n \in 1..Len(classified) : classified[n].is_comparable}}
    IN SelectSeqBy(raw_offers, comparable_titles)

\* the mapping ProductMatchingAgent.execute returns
MatchingResult(raw_offers, classified, errors) ==
    LET comparable_offers == FilterComparable(raw_offers, classified)
    IN [total_offers |-> Len(raw_offers),
        comparable_offers |-> comparable_offers,
        comparable_count |-> Len(comparable_offers),
        excluded_count |-> Len(raw_offers) - Len(comparable_offers),
        classifications |-> classified,
        errors |-> errors]

\* parameters of ProductMatchingAgent.execute, besides self
ExecuteParams == {"target_product", "raw_offers"}

\* keywords each workflow passes to matching_agent.execute
MatchingKeywords(is_url) ==
    IF is_url THEN {"target_product", "offers"} ELSE {"target_product", "raw_offers"}

\* keys each workflow reads from the mapping matching_agent.execute returned
MatchingKeysRead(is_url) ==
    IF is_url THEN {"comparable_offers", "excluded_offers"}
    ELSE {"total_offers", "comparable_count", "excluded_count", "comparable_offers"}

----------------------------------------------------------------------------
(* Statistics and recommendation *)

\* statistics without a price summary: every .get() of execute takes its default
EmptyStatistics == [present |-> FALSE, median |-> 0, q1 |-> 0, q3 |-> 0]

\* price summaries get_price_recommendation_data can produce: a tight, a moderate
\* and a wide market
UsableStatistics ==
    { [present |-> TRUE, median |-> 100, q1 |-> 95, q3 |-> 105],
      [present |-> TRUE, median |-> 100, q1 |-> 85, q3 |-> 115],
      [present |-> TRUE, median |-> 100, q1 |-> 60, q3 |-> 140] }

\* outcomes of get_price_recommendation_data(comparable_offers)
StatisticsOutcomes(comparable_offers) ==
    IF comparable_offers = <<>>
    THEN { [kind |-> "raise", exc |-> "StatisticsUnavailable"],
           [kind |-> "ok", value |-> EmptyStatistics] }
    ELSE { [kind |-> "raise", exc |-> "statistics"] }
         \cup { [kind |-> "ok", value |-> s] : s \in UsableStatistics }

\* PricingIntelligenceAgent.execute; prices and confidence in hundredths
PricingExecute(statistics, comparable_count) ==
    LET median == statistics.median
        q1 == statistics.q1
        q3 == statistics.q3
        spread == IF q1 # 0 /\ q3 # 0 THEN q3 - q1 ELSE 0
        \* spread_ratio = spread / median if median > 0 else 0
        below02 == IF median > 0 THEN 5 * spread < median ELSE TRUE
        above05 == IF median > 0 THEN 2 * spread > median ELSE FALSE
        recommendation ==
            IF below02
            THEN [strategy |-> "competitive", recommended_price |-> median * 100, confidence |-> 85]
            ELSE IF above05
            THEN [strategy |-> "value", recommended_price |-> q1 * 105, confidence |-> 70]
            ELSE [strategy |-> "competitive", recommended_price |-> median * 100, confidence |-> 80]
    IN [recommendation |->
            [kind |-> "recommendation",
             recommended_price |-> recommendation.recommended_price,
             confidence |-> recommendation.confidence,
             strategy |-> recommendation.strategy,
             small_sample |-> comparable_count < SmallSample],
        errors |-> <<>>,
        success |-> TRUE]

\* what calling the coroutine function execute without await evaluates to
CoroutineObject == [kind |-> "coroutine"]

----------------------------------------------------------------------------
(* Inputs and the values the pipeline builds *)

DescInput == [type |-> "str", text |-> "Sony WH-1000XM5"]
UrlInput == [type |-> "str", text |-> "https://www.mercadolibre.com.mx/p/MLM1"]
\* a product_input that is no string
NoneInput == [type |-> "NoneType", text |-> "None"]
InputPool == {DescInput, UrlInput, NoneInput}

\* _is_product_url: re.search(r"mercadolibre\.com\.", input_str) finds a match
is_product_url(input) == input.text \in {UrlInput.text}

Runs == 1..Len(inputs)
IsUrl(i) == is_product_url(inputs[i])

\* key of a stage's record in pipeline_steps, per workflow
StepName(is_url, stage) ==
    IF is_url THEN stage
    ELSE CASE stage = "scraping" -> "1_scraping"
           [] stage = "matching" -> "2_matching"
           [] stage = "statistics" -> "3_statistics"
           [] stage = "recommendation" -> "4_recommendation"

\* the result mapping as analyze_product creates it
NewResult(input, is_url, start_time) ==
    IF is_url
    THEN [product_url |-> input.text, timestamp |-> start_time, pipeline_steps |-> <<>>,
          final_recommendation |-> None, errors |-> <<>>]
    ELSE [product |-> input.text, timestamp |-> start_time, pipeline_steps |-> <<>>,
          final_recommendation |-> None, errors |-> <<>>]

\* result["pipeline_steps"] = {name: record}: the record takes the place of the others
WithStepAlone(r, record) == [r EXCEPT !.pipeline_steps = <<record>>]

\* result["pipeline_steps"][name] = record (a dict keeps insertion order)
WithStep(r, record) == [r EXCEPT !.pipeline_steps = Append(@, record)]

\* the message is logged and not appended
WithErrorLoggedOnly(r, msg, detail) == r

\* result["errors"].append(...)
WithError(r, msg, detail) == [r EXCEPT !.errors = Append(@, [msg |-> msg, detail |-> detail])]

\* an except clause that logs the exception and records nothing
HandleExceptionSilently(r, is_url, e) == r

\* the except clause of each workflow
HandleException(r, is_url, e) ==
    WithError(r, IF is_url THEN "Pipeline error" ELSE "Pipeline failure", e)

\* result["duration_seconds"] = duration
WithDuration(r, duration) ==
    [key \in DOMAIN r \cup {"duration_seconds"} |->
        IF key = "duration_seconds" THEN duration ELSE r[key]]

\* an exception raised by `origin`
Exc(exc_type, origin) == [exc_type |-> exc_type, origin |-> origin]

\* isinstance(r, dict) for an entry of gather's results
IsDict(r) == "exc_type" \notin DOMAIN r

\* the locals of a run before its first stage and after it has returned
NoLocals ==
    [start_time |-> 0, offers |-> <<>>, k |-> 0, classified |-> <<>>,
     agent_errors |-> <<>>, comparable_offers |-> <<>>, statistics |-> EmptyStatistics]

\* the ScrapingResults search_products can return with max_offers = MaxOffers
OfferLists(n) == UNION {[1..m -> TitlePool] : m \in 1..n}
AllScrapes ==
    { [strategy |-> s, offers |-> <<>>] : s \in {"error", "no_offers"} }
    \cup { [strategy |-> s, offers |-> o] :
             s \in {"preloaded_state", "jsonld"}, o \in OfferLists(MaxOffers) }

\* no call of pricing_agent.execute is awaited
AwaitedNowhere(is_url) == FALSE

\* whether `await pricing_agent.execute(...)` is written with its await
Awaited(is_url) == ~is_url

----------------------------------------------------------------------------
(* The event loop *)

Terminated(i) == pc[i] \in {"returned", "raised"}

\* run i goes on: it holds the loop
Running(i) == loop = i

Log(i, es) == events' = [events EXCEPT ![i] = @ \o es]

\* the try block ends in the except clause: the error is recorded and the code
\* after the try statement runs next
Caught(i, stage, e) ==
    /\ result' = [result EXCEPT ![i] = HandleException(@, IsUrl(i), e)]
    /\ pc' = [pc EXCEPT ![i] = "finish"]
    /\ Log(i, << <<"call", stage>>, <<"raise", stage>> >>)
    /\ loop' = i

\* `return result` inside the try block
ReturnEarly(i, r) ==
    /\ result' = [result EXCEPT ![i] = r]
    /\ pc' = [pc EXCEPT ![i] = "returned"]
    /\ loc' = [loc EXCEPT ![i] = NoLocals]
    /\ loop' = 0

----------------------------------------------------------------------------
(* analyze_product, one action per stage *)

\* analyze_product up to the try statement: the workflow is chosen and the
\* result accumulator created.  gather starts its coroutines in argument order.
Start(i) ==
    /\ pc[i] = "created"
    /\ loop = 0
    /\ \A j \in 1..(i - 1) : pc[j] # "created"
    /\ IF inputs[i].type # "str"
       THEN \* re.search raises TypeError outside every try block
            /\ result' = [result EXCEPT ![i] = Exc("TypeError", "_is_product_url")]
            /\ pc' = [pc EXCEPT ![i] = "raised"]
            /\ UNCHANGED <<loc, loop>>
       ELSE /\ result' = [result EXCEPT ![i] = NewResult(inputs[i], IsUrl(i), now)]
            /\ loc' = [loc EXCEPT ![i].start_time = now]
            /\ pc' = [pc EXCEPT ![i] = IF IsUrl(i) THEN "pivot" ELSE "scrape"]
            /\ loop' = i
    /\ UNCHANGED <<fn, call, inputs, events, now, jar, sent, batch>>

\* Step 0 of the URL workflow: scraper.extract_product_details(product_url)
PivotDetails(i) ==
    /\ pc[i] = "pivot"
    /\ Running(i)
    /\ \E out \in {"details", "None", "raise"} :
         CASE out = "raise" ->
                /\ Caught(i, "pivot_product", Exc("Exception", "pivot_product"))
                /\ UNCHANGED loc
           [] out = "None" ->
                /\ ReturnEarly(i, WithError(result[i],
                                    "Failed to extract product details from URL", None))
                /\ Log(i, << <<"call", "pivot_product">>, <<"done", "pivot_product">> >>)
           [] out = "details" ->
                /\ result' = [result EXCEPT ![i] =
                                WithStep(@, [name |-> "pivot_product", status |-> "completed"])]
                /\ pc' = [pc EXCEPT ![i] = "strategy"]
                /\ Log(i, << <<"call", "pivot_product">>, <<"done", "pivot_product">> >>)
                /\ UNCHANGED <<loc, loop>>
    /\ UNCHANGED <<fn, call, inputs, now, jar, sent, batch>>

\* Step 1 of the URL workflow: search_strategy_agent.generate_search_terms(pivot_product)
SearchStrategy(i) ==
    /\ pc[i] = "strategy"
    /\ Running(i)
    /\ \E out \in {"terms", "raise"} :
         IF out = "raise"
         THEN /\ Caught(i, "search_strategy", Exc("Exception", "search_strategy"))
              /\ UNCHANGED loc
         ELSE /\ result' = [result EXCEPT ![i] =
                              WithStep(@, [name |-> "search_strategy", status |-> "completed"])]
              /\ pc' = [pc EXCEPT ![i] = "scrape"]
              /\ Log(i, << <<"call", "search_strategy">>, <<"done", "search_strategy">> >>)
              /\ UNCHANGED <<loc, loop>>
    /\ UNCHANGED <<fn, call, inputs, now, jar, sent, batch>>

\* scraper.search_products(...) and the scraping record; the listing request goes
\* through the session of the pipeline's one scraper, which keeps the cookies of
\* every response it gets
Scrape(i, scrapes) ==
    /\ pc[i] = "scrape"
    /\ Running(i)
    /\ \E out \in scrapes \cup {[strategy |-> "raise", offers |-> <<>>]} :
         /\ sent' = IF out.strategy = "raise" THEN sent ELSE [sent EXCEPT ![i] = jar]
         /\ \E set_cookie \in BOOLEAN :
              jar' = IF set_cookie /\ out.strategy \in {"preloaded_state", "jsonld", "no_offers"}
                     THEN jar \cup {i} ELSE jar
         /\ IF out.strategy = "raise"
            THEN /\ Caught(i, "scraping", Exc("Exception", "scraping"))
                 /\ UNCHANGED loc
            ELSE LET recorded ==
                       WithStep(result[i],
                                [name |-> StepName(IsUrl(i), "scraping"),
                                 status |-> "completed",
                                 strategy |-> out.strategy,
                                 offers_found |-> Len(out.offers)])
                 IN /\ Log(i, << <<"call", "scraping">>, <<"done", "scraping">> >>)
                    /\ IF out.offers = <<>>
                       THEN ReturnEarly(i, WithError(recorded,
                                IF IsUrl(i) THEN "No offers found"
                                ELSE "No products found in scraping", None))
                       ELSE /\ result' = [result EXCEPT ![i] = recorded]
                            /\ loc' = [loc EXCEPT ![i].offers = out.offers]
                            /\ pc' = [pc EXCEPT ![i] = "match_call"]
                            /\ UNCHANGED loop
    /\ UNCHANGED <<fn, call, inputs, now, batch>>

\* `await self.matching_agent.execute(...)`: the call binds its keywords to
\* execute's parameters, execute builds its state and the graph runs
\* receive_offers; the coroutine then suspends in the model call of the first batch
MatchingCall(i) ==
    /\ pc[i] = "match_call"
    /\ Running(i)
    /\ IF MatchingKeywords(IsUrl(i)) # ExecuteParams
       THEN \* TypeError: execute() got an unexpected keyword argument
            /\ Caught(i, "matching", Exc("TypeError", "matching"))
            /\ UNCHANGED loc
       ELSE \E out \in {"invoked", "raise"} :
              IF out = "raise"
              THEN /\ Caught(i, "matching", Exc("Exception", "matching"))
                   /\ UNCHANGED loc
              ELSE /\ loc' = [loc EXCEPT ![i].k = 0, ![i].classified = <<>>,
                                         ![i].agent_errors = <<>>]
                   /\ pc' = [pc EXCEPT ![i] = "classify"]
                   /\ Log(i, << <<"call", "matching">> >>)
                   /\ loop' = 0
                   /\ UNCHANGED result
    /\ UNCHANGED <<fn, call, inputs, now, jar, sent, batch>>

\* one iteration of classify_products' loop: the model call of batch k returns or
\* raises; the coroutine suspends again when another batch follows
ClassifyBatch(i) ==
    /\ pc[i] = "classify"
    /\ loop = 0
    /\ LET k == loc[i].k
           more == k + 1 < NumBatches(loc[i].offers)
       IN /\ \E out \in {"response", "raise"} :
                IF out = "raise"
                THEN /\ loc' = [loc EXCEPT ![i].k = k + 1,
                                           ![i].agent_errors =
                                               Append(@, [msg |-> "Classification error", batch |-> k])]
                     /\ Log(i, << <<"llm_raise", k>> >>)
                ELSE /\ loc' = [loc EXCEPT ![i].k = k + 1,
                                           ![i].classified =
                                               @ \o ClassifyBatchOffers(BatchOf(loc[i].offers, k))]
                     /\ Log(i, << <<"llm_response", k>> >>)
          /\ pc' = [pc EXCEPT ![i] = IF more THEN "classify" ELSE "match_return"]
          /\ loop' = IF more THEN 0 ELSE i
    /\ UNCHANGED <<fn, call, inputs, result, now, jar, sent, batch>>

\* filter_comparable runs, execute returns its mapping, and the workflow writes the
\* matching record and looks at the number of comparable offers
MatchingReturn(i) ==
    /\ pc[i] = "match_return"
    /\ Running(i)
    /\ LET m == MatchingResult(loc[i].offers, loc[i].classified, loc[i].agent_errors)
           recorded ==
               WithStep(result[i],
                        [name |-> StepName(IsUrl(i), "matching"),
                         status |-> "completed",
                         total_offers |-> m.total_offers,
                         comparable_count |-> m.comparable_count,
                         excluded_count |-> m.excluded_count])
       IN IF ~(MatchingKeysRead(IsUrl(i)) \subseteq DOMAIN m)
          THEN \* KeyError: the mapping has no such key
               /\ result' = [result EXCEPT ![i] =
                                HandleException(@, IsUrl(i), Exc("KeyError", "matching"))]
               /\ pc' = [pc EXCEPT ![i] = "finish"]
               /\ Log(i, << <<"done", "matching">> >>)
               /\ UNCHANGED <<loc, loop>>
          ELSE /\ Log(i, << <<"done", "matching">> >>)
               /\ IF IsUrl(i)
                  THEN IF m.comparable_offers = <<>>
                       THEN ReturnEarly(i, WithError(recorded,
                                "No comparable products found after filtering", None))
                       ELSE /\ result' = [result EXCEPT ![i] = recorded]
                            /\ loc' = [loc EXCEPT ![i].comparable_offers = m.comparable_offers]
                            /\ pc' = [pc EXCEPT ![i] = "statistics"]
                            /\ UNCHANGED loop
                  ELSE /\ result' = [result EXCEPT ![i] =
                                IF m.comparable_count < MinComparable
                                THEN WithError(recorded, "Too few comparable products",
                                               [count |-> m.comparable_count])
                                ELSE recorded]
                       /\ loc' = [loc EXCEPT ![i].comparable_offers = m.comparable_offers]
                       /\ pc' = [pc EXCEPT ![i] = "statistics"]
                       /\ UNCHANGED loop
    /\ UNCHANGED <<fn, call, inputs, now, jar, sent, batch>>

\* get_price_recommendation_data(comparable_offers) and the statistics record
Statistics(i) ==
    /\ pc[i] = "statistics"
    /\ Running(i)
    /\ \E out \in StatisticsOutcomes(loc[i].comparable_offers) :
         IF out.kind = "raise"
         THEN /\ Caught(i, "statistics", Exc(out.exc, "statistics"))
              /\ UNCHANGED loc
         ELSE /\ result' = [result EXCEPT ![i] =
                              WithStep(@, [name |-> StepName(IsUrl(i), "statistics"),
                                           status |-> "completed",
                                           analysis |-> out.value])]
              /\ loc' = [loc EXCEPT ![i].statistics = out.value]
              /\ pc' = [pc EXCEPT ![i] = "recommend"]
              /\ Log(i, << <<"call", "statistics">>, <<"done", "statistics">> >>)
              /\ UNCHANGED loop
    /\ UNCHANGED <<fn, call, inputs, now, jar, sent, batch>>

\* pricing_agent.execute(...): awaited, it runs to its return (it never suspends);
\* called without await it only makes a coroutine object and nothing runs
Recommendation(i) ==
    /\ pc[i] = "recommend"
    /\ Running(i)
    /\ IF Awaited(IsUrl(i))
       THEN \E out \in {"return", "raise"} :
              IF out = "raise"
              THEN Caught(i, "recommendation", Exc("Exception", "recommendation"))
              ELSE LET pricing_result ==
                           PricingExecute(loc[i].statistics, Len(loc[i].comparable_offers))
                       recorded ==
                           WithStep(result[i],
                                    [name |-> StepName(IsUrl(i), "recommendation"),
                                     status |-> IF pricing_result.success
                                                THEN "completed" ELSE "failed"])
                   IN /\ result' = [result EXCEPT ![i] =
                            [recorded EXCEPT
                                !.final_recommendation = pricing_result.recommendation,
                                !.errors = @ \o pricing_result.errors]]
                      /\ pc' = [pc EXCEPT ![i] = "finish"]
                      /\ Log(i, << <<"call", "recommendation">>, <<"done", "recommendation">> >>)
                      /\ UNCHANGED loop
       ELSE /\ result' = [result EXCEPT ![i] =
                  [WithStep(@, [name |-> StepName(IsUrl(i), "recommendation"),
                                status |-> "completed"])
                      EXCEPT !.final_recommendation = CoroutineObject]]
            /\ pc' = [pc EXCEPT ![i] = "finish"]
            /\ Log(i, << <<"coroutine", "recommendation">> >>)
            /\ UNCHANGED loop
    /\ UNCHANGED <<fn, call, inputs, loc, now, jar, sent, batch>>

\* the code after the try statement: duration_seconds is set and result returned
Finish(i) ==
    /\ pc[i] = "finish"
    /\ Running(i)
    /\ result' = [result EXCEPT ![i] = WithDuration(@, now - loc[i].start_time)]
    /\ pc' = [pc EXCEPT ![i] = "returned"]
    /\ loc' = [loc EXCEPT ![i] = NoLocals]
    /\ loop' = 0
    /\ UNCHANGED <<fn, call, inputs, events, now, jar, sent, batch>>

\* time passes while a run is under way
Tick ==
    /\ now < MaxClock
    /\ \E i \in Runs : ~Terminated(i)
    /\ now' = now + 1
    /\ UNCHANGED <<fn, call, inputs, pc, result, loc, events, loop, jar, sent, batch>>

----------------------------------------------------------------------------
(* analyze_multiple_products *)

\* what `await asyncio.gather(*tasks, return_exceptions=True)` evaluates to: one
\* entry per task, in the order of the tasks, an exception object for a task that raised
GatherResults(outcomes, n) == [i \in 1..n |-> outcomes[i]]

\* a batch result whose failed list holds the raised exceptions only
BatchResultExceptionsOnly(product_descriptions, results) ==
    LET successful == {i \in DOMAIN results : IsDict(results[i]) /\ results[i].errors = <<>>}
        failed == {i \in DOMAIN results : ~IsDict(results[i])}
    IN [total_products |-> Len(product_descriptions),
        successful |-> Cardinality(successful),
        failed |-> Cardinality(failed),
        results |-> results]

\* the mapping analyze_multiple_products returns
BatchResult(product_descriptions, results) ==
    LET successful == {i \in DOMAIN results : IsDict(results[i]) /\ results[i].errors = <<>>}
        failed == {i \in DOMAIN results : ~IsDict(results[i]) \/ results[i].errors # <<>>}
    IN [total_products |-> Len(product_descriptions),
        successful |-> Cardinality(successful),
        failed |-> Cardinality(failed),
        results |-> results]

\* gather completes when its last task has, and the batch result is built
BatchReturn ==
    /\ call = "batch"
    /\ batch = None
    /\ \A i \in Runs : Terminated(i)
    /\ batch' = BatchResult(inputs, GatherResults(result, Len(inputs)))
    /\ UNCHANGED <<fn, call, inputs, pc, result, loc, events, loop, now, jar, sent>>

\* the listings the batch runs meet: a failed fetch, three comparable offers, and a
\* page with an accessory among the offers
BatchScrapes ==
    { [strategy |-> "error", offers |-> <<>>],
      [strategy |-> "preloaded_state", offers |-> <<TitleSony, TitleSony, TitleSony>>],
      [strategy |-> "jsonld", offers |-> <<TitleSony, TitleFunda>>] }

----------------------------------------------------------------------------
(* Specifications *)

InitRuns(n) ==
    /\ pc = [i \in 1..n |-> "created"]
    /\ result = [i \in 1..n |-> None]
    /\ loc = [i \in 1..n |-> NoLocals]
    /\ events = [i \in 1..n |-> <<>>]
    /\ sent = [i \in 1..n |-> {}]
    /\ loop = 0
    /\ now = 0
    /\ jar = {}
    /\ batch = None

\* one call of analyze_product
Init ==
    /\ call = "direct"
    /\ inputs \in {<<x>> : x \in InputPool}
    /\ InitRuns(1)
    /\ fn = None

\* one call of analyze_multiple_products
InitBatch ==
    /\ call = "batch"
    /\ inputs \in UNION {[1..n -> InputPool] : n \in 0..MaxBatch}
    /\ InitRuns(Len(inputs))
    /\ fn = None

Next ==
    \/ \E i \in Runs : Start(i)
    \/ \E i \in Runs : PivotDetails(i)
    \/ \E i \in Runs : SearchStrategy(i)
    \/ \E i \in Runs : Scrape(i, AllScrapes)
    \/ \E i \in Runs : MatchingCall(i)
    \/ \E i \in Runs : ClassifyBatch(i)
    \/ \E i \in Runs : MatchingReturn(i)
    \/ \E i \in Runs : Statistics(i)
    \/ \E i \in Runs : Recommendation(i)
    \/ \E i \in Runs : Finish(i)
    \/ Tick

NextBatch ==
    \/ \E i \in Runs : Start(i)
    \/ \E i \in Runs : PivotDetails(i)
    \/ \E i \in Runs : SearchStrategy(i)
    \/ \E i \in Runs : Scrape(i, BatchScrapes)
    \/ \E i \in Runs : MatchingCall(i)
    \/ \E i \in Runs : ClassifyBatch(i)
    \/ \E i \in Runs : MatchingReturn(i)
    \/ \E i \in Runs : Statistics(i)
    \/ \E i \in Runs : Recommendation(i)
    \/ \E i \in Runs : Finish(i)
    \/ BatchReturn

Spec == Init /\ [][Next]_vars

SpecBatch == InitBatch /\ [][NextBatch]_vars

----------------------------------------------------------------------------
(* Vocabulary of the properties *)

\* the stages of each workflow, in pipeline order
PipelineOrder(is_url) ==
    IF is_url
    THEN <<"pivot_product", "search_strategy", "scraping", "matching", "statistics",
           "recommendation">>
    ELSE <<"scraping", "matching", "statistics", "recommendation">>

\* positions of events[i] holding the event <<kind, stage>>
EventsAt(i, kind, stage) ==
    {k \in 1..Len(events[i]) : events[i][k][1] = kind /\ events[i][k][2] = stage}

Happened(i, kind, stage) == EventsAt(i, kind, stage) # {}

\* positions of events[i] where a stage operation was invoked
CallsAt(i) == {k \in 1..Len(events[i]) : events[i][k][1] = "call"}

\* the record of `stage` in a result's pipeline_steps, as a set (empty when absent)
StepRecords(r, is_url, stage) ==
    {r.pipeline_steps[n] : n \in {m \in 1..Len(r.pipeline_steps) :
                                    r.pipeline_steps[m].name = StepName(is_url, stage)}}

\* the errors of a result that carry the message msg
ErrorsWith(r, msg) == {n \in 1..Len(r.errors) : r.errors[n].msg = msg}

\* run i has handed a result mapping to its caller
Returned(i) == pc[i] = "returned"

\* run i has a result accumulator
HasResult(i) == pc[i] \notin {"created", "raised"}

\* the scrape of run i yielded no offer
ScrapedNothing(i) ==
    \E rec \in StepRecords(result[i], IsUrl(i), "scraping") : rec.offers_found = 0

----------------------------------------------------------------------------
(* C1 *)

----------------------------------------------------------------------------
(* C2 *)

\* C2: when the scrape yields zero offers, the returned result has
\* final_recommendation = null, a non-empty errors list and a duration_seconds >= 0.
C2_ZeroOffersResult ==
    \A i \in Runs :
        (Returned(i) /\ ScrapedNothing(i)) =>
            /\ result[i].final_recommendation = None
            /\ result[i].errors # <<>>
            /\ "duration_seconds" \in DOMAIN result[i]
            /\ result[i].duration_seconds >= 0

----------------------------------------------------------------------------
(* C3 *)

\* C3: once the matching stage has yielded fewer than 3 comparable offers, an
\* error is recorded, neither the statistics nor the recommendation stage is
\* invoked, and final_recommendation stays null.
C3_TooFewShortCircuits ==
    \A i \in Runs :
        HasResult(i) =>
            \A rec \in StepRecords(result[i], IsUrl(i), "matching") :
                rec.comparable_count < MinComparable =>
                    /\ result[i].errors # <<>>
                    /\ ~Happened(i, "call", "statistics")
                    /\ ~Happened(i, "call", "recommendation")
                    /\ ~Happened(i, "coroutine", "recommendation")
                    /\ result[i].final_recommendation = None

----------------------------------------------------------------------------
(* C4 *)

\* C4: in a returned result every stage the run started has its record in
\* pipeline_steps, marked failed when the stage raised or yielded nothing usable.
C4_EveryStartedStageRecorded ==
    \A i \in Runs :
        Returned(i) =>
            \A k \in CallsAt(i) :
                LET stage == events[i][k][2]
                IN /\ StepRecords(result[i], IsUrl(i), stage) # {}
                   /\ Happened(i, "raise", stage) =>
                        \A rec \in StepRecords(result[i], IsUrl(i), stage) : rec.status = "failed"

----------------------------------------------------------------------------
(* C5 *)

\* run i ended with an exception or with an error result
RunFailed(i) == pc[i] = "raised" \/ (Returned(i) /\ result[i].errors # <<>>)

\* run i returned a result without errors
RunSucceeded(i) == Returned(i) /\ result[i].errors = <<>>

\* C5: the batch result over N inputs lists exactly N results, the i-th being the
\* outcome of the i-th input, successful + failed = N, and when exactly one input
\* failed and the others succeeded, successful = N - 1 and failed = 1.
C5_BatchCounts ==
    batch # None =>
        LET n == Len(inputs)
        IN /\ batch.total_products = n
           /\ Len(batch.results) = n
           /\ \A i \in 1..n :
                /\ batch.results[i] = result[i]
                /\ IsDict(batch.results[i]) =>
                     inputs[i].text = IF IsUrl(i) THEN batch.results[i].product_url
                                      ELSE batch.results[i].product
           /\ batch.successful + batch.failed = n
           /\ batch.successful = Cardinality({i \in 1..n : RunSucceeded(i)})
           /\ (Cardinality({i \in 1..n : RunFailed(i)}) = 1
               /\ \A i \in 1..n : RunFailed(i) \/ RunSucceeded(i))
              => (batch.successful = n - 1 /\ batch.failed = 1)

\* a batch of two has returned: the first run succeeded, the second failed with an
\* error result
C5_Witness ==
    /\ batch # None
    /\ Len(inputs) = 2
    /\ RunSucceeded(1)
    /\ Returned(2)
    /\ RunFailed(2)
    /\ batch.successful = 1
    /\ batch.failed = 1

----------------------------------------------------------------------------
(* C6 *)

\* C6: every entry of the batch's results list is a result mapping with errors and
\* final_recommendation; a run that ended with an exception appears as a failed
\* result with an error entry, never as an exception object.
C6_BatchEntriesWellFormed ==
    batch # None =>
        \A i \in DOMAIN batch.results :
            /\ {"errors", "final_recommendation"} \subseteq DOMAIN batch.results[i]
            /\ pc[i] = "raised" =>
                 /\ batch.results[i].errors # <<>>
                 /\ batch.results[i].final_recommendation = None

----------------------------------------------------------------------------
(* C7 *)

\* C7: concurrent runs share no connection context: the listing request of every
\* run carries what it carries when the run is executed alone, that is no cookie
\* of a sibling's response.
C7_RunsShareNothing ==
    \A i \in Runs : sent[i] \subseteq {i}

----------------------------------------------------------------------------
(* C8 *)

\* the stage whose record has the key `name`
StageOfStep(is_url, name) ==
    CHOOSE stage \in {PipelineOrder(is_url)[n] : n \in 1..Len(PipelineOrder(is_url))} :
        StepName(is_url, stage) = name

----------------------------------------------------------------------------
(* C9 *)

\* the model call of some batch of run i raised
ClassificationFailed(i) ==
    \E k \in 1..Len(events[i]) : events[i][k][1] = "llm_raise"

\* C9: when the classification failed for some batch, the result's errors list has
\* an entry for that failure and the pipeline goes no further.
C9_ClassificationFailureStops ==
    \A i \in Runs :
        (HasResult(i) /\ ClassificationFailed(i) /\ Happened(i, "done", "matching")) =>
            /\ ErrorsWith(result[i], "Classification error") # {}
            /\ ~Happened(i, "call", "statistics")
            /\ ~Happened(i, "call", "recommendation")

----------------------------------------------------------------------------
(* C10 *)

\* no stage operation of run i failed of itself
NoStageFailure(i) ==
    \A n \in 1..Len(result[i].errors) :
        "exc_type" \in DOMAIN result[i].errors[n].detail =>
            result[i].errors[n].detail.exc_type \notin {"Exception", "StatisticsUnavailable"}

\* C10: a product-URL run whose pivot details, search terms, listing (at least one
\* offer), classification (a comparable offer) and statistics are all usable
\* records the six steps in order, each completed, with no error, and returns the
\* recommendation the recommendation capability produced.
C10_UrlRunCompletes ==
    \A i \in Runs :
        ( /\ pc[i] = "finish"
          /\ IsUrl(i)
          /\ loc[i].offers # <<>>
          /\ FilterComparable(loc[i].offers, ClassifyBatchOffers(loc[i].offers)) # <<>>
          /\ ~ClassificationFailed(i)
          /\ NoStageFailure(i) ) =>
            /\ [n \in 1..Len(result[i].pipeline_steps) |-> result[i].pipeline_steps[n].name]
                   = PipelineOrder(TRUE)
            /\ \A n \in 1..Len(result[i].pipeline_steps) :
                   result[i].pipeline_steps[n].status = "completed"
            /\ result[i].errors = <<>>
            /\ result[i].final_recommendation.kind = "recommendation"

----------------------------------------------------------------------------
(* C24, C26, C27 *)

\* C24: when the statistics stage has yielded statistics without a price summary, the
\* returned result holds an error, the recommendation stage was never invoked and
\* final_recommendation is null.
C24_EmptyStatisticsStop ==
    \A i \in Runs :
        Returned(i) =>
            \A rec \in StepRecords(result[i], IsUrl(i), "statistics") :
                rec.analysis = EmptyStatistics =>
                    /\ result[i].errors # <<>>
                    /\ ~Happened(i, "call", "recommendation")
                    /\ ~Happened(i, "coroutine", "recommendation")
                    /\ result[i].final_recommendation = None

\* C26: a result analyze_product returns with final_recommendation = null has a
\* non-empty errors list, whatever path the run took.
C26_NullRecommendationHasError ==
    \A i \in Runs :
        (Returned(i) /\ result[i].final_recommendation = None) => result[i].errors # <<>>

\* a description run whose matching stage raised has returned without recommendation
C26_Witness ==
    \E i \in Runs :
        /\ Returned(i)
        /\ ~IsUrl(i)
        /\ Happened(i, "raise", "matching")
        /\ result[i].final_recommendation = None
        /\ Len(result[i].errors) = 1

\* s is the beginning of t
IsPrefix(s, t) == Len(s) <= Len(t) /\ SubSeq(t, 1, Len(s)) = s

\* the keys of pipeline_steps, in insertion order
StepNames(r) == [n \in 1..Len(r.pipeline_steps) |-> r.pipeline_steps[n].name]

\* C27: throughout a description run and in its result, the keys of pipeline_steps are
\* a prefix of 1_scraping, 2_matching, 3_statistics, 4_recommendation; no step of the
\* run removes or changes a record written before, and the errors list only grows.
C27_StepsArePrefix ==
    /\ [](\A i \in Runs :
            (HasResult(i) /\ ~IsUrl(i)) =>
                IsPrefix(StepNames(result[i]),
                         [n \in 1..Len(PipelineOrder(FALSE)) |->
                             StepName(FALSE, PipelineOrder(FALSE)[n])]))
    /\ [][\A i \in Runs :
            (HasResult(i) /\ pc'[i] \notin {"created", "raised"} /\ ~IsUrl(i)) =>
                /\ IsPrefix(result[i].pipeline_steps, result'[i].pipeline_steps)
                /\ IsPrefix(result[i].errors, result'[i].errors)]_vars

\* a description run has returned its four records together with an error
C27_Witness ==
    \E i \in Runs :
        /\ Returned(i)
        /\ ~IsUrl(i)
        /\ Len(result[i].pipeline_steps) = 4
        /\ ErrorsWith(result[i], "Too few comparable products") # {}

----------------------------------------------------------------------------
(* The scraper's text functions                                            *)
(* (backend/app/mcp_servers/mercadolibre/scraper.py)                       *)

\* a Python str value; None stands for Python's None, and the values json.loads builds
\* are Bool, Num, List and Dict below
Str(v) == [kind |-> "str", v |-> v]

\* truth value of a Python value: None, False, 0, "", [] and {} are falsy
Truthy(x) ==
    CASE x.kind = "None" -> FALSE
      [] x.kind = "bool" -> x.v
      [] x.kind = "num" -> x.int # 0 \/ \E n \in 1..Len(x.frac) : x.frac[n] # "0"
      [] x.kind = "str" -> x.v # <<>>
      [] x.kind \in {"list", "dict"} -> x.items # <<>>

\* characters \s matches
Whitespace == {" ", "\t", "\n", "\r"}
\* characters \d matches
Digits == {"0", "1", "2", "3", "4", "5", "6", "7", "8", "9"}
\* characters [a-z] matches
IsLower(c) == \E k \in 1..26 : LowerCase[k] = c
\* characters \w matches
IsWordChar(c) ==
    \/ IsLower(c)
    \/ \E k \in 1..26 : UpperCase[k] = c
    \/ c \in Digits
    \/ c \in {"_", "ó"}

\* str.strip()
Strip(s) ==
    LET inked == {k \in 1..Len(s) : s[k] \notin Whitespace}
    IN IF inked = {} THEN <<>>
       ELSE SubSeq(s, CHOOSE k \in inked : \A m \in inked : k <= m,
                      CHOOSE k \in inked : \A m \in inked : m <= k)

RECURSIVE SubWhitespace(_, _)
\* re.sub(r"\s+", " ", s), from position k on
SubWhitespace(s, k) ==
    IF k > Len(s) THEN <<>>
    ELSE IF s[k] \in Whitespace
         THEN (IF k > 1 /\ s[k - 1] \in Whitespace THEN <<>> ELSE <<" ">>)
              \o SubWhitespace(s, k + 1)
         ELSE <<s[k]>> \o SubWhitespace(s, k + 1)

normalize_text(s) == SubWhitespace(Strip(Lower(s)), 1)

\* re.sub(r"[^a-z0-9-]", "", normalize_text(s)): the hyphen survives
normalize_model_keeping_hyphens(s) ==
    SelectSeq(normalize_text(s), LAMBDA c : IsLower(c) \/ c \in Digits \/ c = "-")
normalize_model(s) ==
    SelectSeq(normalize_text(s), LAMBDA c : IsLower(c) \/ c \in Digits)

ACCESSORY_NEGATIVES ==
    { <<"f","u","n","d","a">>, <<"c","a","s","e">>, <<"c","a","r","c","a","s","a">>,
      <<"p","r","o","t","e","c","t","o","r">>, <<"m","i","c","a">>,
      <<"g","l","a","s","s">>, <<"t","e","m","p","l","a","d","o">>,
      <<"c","a","b","l","e">>, <<"a","d","a","p","t","a","d","o","r">>,
      <<"c","a","r","g","a","d","o","r">>, <<"b","a","s","e">>,
      <<"s","o","p","o","r","t","e">>, <<"r","e","f","a","c","c","i","ó","n">>,
      <<"r","e","p","u","e","s","t","o">>, <<"c","o","n","t","r","o","l">>,
      <<"a","l","m","o","h","a","d","i","l","l","a","s">>,
      <<"e","a","r","p","a","d","s">>, <<"e","s","t","u","c","h","e">>,
      <<"s","o","l","o"," ","c","a","j","a">> }

\* the pieces of r"\b([a-z]{1,4}\s*[-]?\s*\d{2,6}\s*[a-z]{0,6}\d*)\b" between the two
\* \b, in order: a character class repeated lo to hi times (hi = -1: no upper limit)
ModelPattern ==
    << [cls |-> "a-z", lo |-> 1, hi |-> 4], [cls |-> "\\s", lo |-> 0, hi |-> -1],
       [cls |-> "-", lo |-> 0, hi |-> 1], [cls |-> "\\s", lo |-> 0, hi |-> -1],
       [cls |-> "\\d", lo |-> 2, hi |-> 6], [cls |-> "\\s", lo |-> 0, hi |-> -1],
       [cls |-> "a-z", lo |-> 0, hi |-> 6], [cls |-> "\\d", lo |-> 0, hi |-> -1] >>

InClass(c, cls) ==
    CASE cls = "a-z" -> IsLower(c)
      [] cls = "\\s" -> c \in Whitespace
      [] cls = "\\d" -> c \in Digits
      [] cls = "-" -> c = "-"

\* \b at position p: exactly one of s[p - 1], s[p] is a word character
WordBoundary(s, p) ==
    LET before == p > 1 /\ IsWordChar(s[p - 1])
        after == p <= Len(s) /\ IsWordChar(s[p])
    IN before # after

RECURSIVE RunLength(_, _, _)
\* how many characters of class cls follow from position p
RunLength(s, p, cls) ==
    IF p <= Len(s) /\ InClass(s[p], cls) THEN 1 + RunLength(s, p + 1, cls) ELSE 0

RECURSIVE MatchEnd(_, _, _)
\* greedy matching with backtracking of the pieces k, k + 1, ... and the closing \b
\* from position p: the position after the match, 0 when there is none
MatchEnd(s, k, p) ==
    IF k > Len(ModelPattern) THEN (IF WordBoundary(s, p) THEN p ELSE 0)
    ELSE LET piece == ModelPattern[k]
             run == RunLength(s, p, piece.cls)
             most == IF piece.hi = -1 THEN run ELSE Min(run, piece.hi)
             counts == {c \in piece.lo..most : MatchEnd(s, k + 1, p + c) # 0}
         IN IF counts = {} THEN 0
            ELSE MatchEnd(s, k + 1, p + CHOOSE c \in counts : \A m \in counts : m <= c)

\* re.search of the model pattern in d: group 1 of the leftmost match, or None
ModelSearch(d) ==
    LET starts == {p \in 1..(Len(d) + 1) : WordBoundary(d, p) /\ MatchEnd(d, 1, p) # 0}
    IN IF starts = {} THEN None
       ELSE LET p == CHOOSE q \in starts : \A m \in starts : q <= m
            IN Str(SubSeq(d, p, MatchEnd(d, 1, p) - 1))

RECURSIVE Join(_)
\* " ".join(parts)
Join(parts) ==
    IF parts = <<>> THEN <<>>
    ELSE IF Len(parts) = 1 THEN parts[1].v
    ELSE parts[1].v \o <<" ">> \o Join(Tail(parts))

extract_product(description) ==
    LET d == normalize_text(description)
        brand == IF Contains(<<" ">> \o d \o <<" ">>, <<" ","s","o","n","y"," ">>)
                 THEN Str(<<"s","o","n","y">>) ELSE None
        model == ModelSearch(d)
        model_norm == IF Truthy(model) THEN Str(normalize_model(model.v)) ELSE None
        joined == Strip(Join(SelectSeq(<<brand, model>>, Truthy)))
    IN [brand |-> brand,
        model |-> model,
        model_norm |-> model_norm,
        signature |-> IF joined # <<>> THEN joined ELSE Strip(description)]

\* match_title consulting the brand before the model
match_title_brand_first(title, product) ==
    LET t == normalize_text(title)
    IN IF \E x \in ACCESSORY_NEGATIVES : Contains(t, x) THEN FALSE
       ELSE IF Truthy(product.brand) THEN Contains(t, product.brand.v)
       ELSE IF Truthy(product.model_norm)
       THEN Contains(normalize_model(title), product.model_norm.v)
       ELSE TRUE
\* match_title without the accessory veto
match_title_without_veto(title, product) ==
    LET t == normalize_text(title)
    IN IF Truthy(product.model_norm)
       THEN Contains(normalize_model(title), product.model_norm.v)
       ELSE IF Truthy(product.brand) THEN Contains(t, product.brand.v)
       ELSE TRUE
match_title(title, product) ==
    LET t == normalize_text(title)
    IN IF \E x \in ACCESSORY_NEGATIVES : Contains(t, x) THEN FALSE
       ELSE IF Truthy(product.model_norm)
       THEN Contains(normalize_model(title), product.model_norm.v)
       ELSE IF Truthy(product.brand) THEN Contains(t, product.brand.v)
       ELSE TRUE

----------------------------------------------------------------------------
(* Calls of the text functions: the arguments are drawn in the initial     *)
(* state, each action is one call                                          *)

\* most fragments a title or description is put together from
MaxParts == 3

FragSony == <<"S","o","n","y">>
FragModel == <<"X","M","-","4","0">>
\* what titles and descriptions are made of: brand, model, an accessory word, the two
\* halves of the keyword "solo caja", and white space
Fragments ==
    { FragSony, FragModel, <<"F","u","n","d","a">>, <<"s","o","l","o">>,
      <<"c","a","j","a">>, <<" ">>, <<"\t">> }

RECURSIVE Concat(_)
Concat(parts) == IF parts = <<>> THEN <<>> ELSE Head(parts) \o Concat(Tail(parts))

Texts == {Concat(parts) : parts \in UNION {[1..n -> Fragments] : n \in 0..MaxParts}}

\* descriptions of the target product: brand and model, brand only, model only, nothing
TargetDescriptions == {FragSony \o <<" ">> \o FragModel, FragSony, FragModel, <<>>}

\* the pipeline is not running
NoPipeline ==
    /\ call = "none"
    /\ inputs = <<>>
    /\ InitRuns(0)

pipeline_vars == <<call, inputs, pc, result, loc, events, loop, now, jar, sent, batch>>

InitText ==
    /\ NoPipeline
    /\ fn \in [op : {"args"}, text : Texts, target : TargetDescriptions]

\* normalize_model(text)
NormalizeModel ==
    /\ fn.op = "args"
    /\ fn' = [op |-> "normalize_model", text |-> fn.text, target |-> fn.target,
              out |-> normalize_model(fn.text)]
    /\ UNCHANGED pipeline_vars

\* extract_product(text)
ExtractProduct ==
    /\ fn.op = "args"
    /\ fn' = [op |-> "extract_product", text |-> fn.text, target |-> fn.target,
              out |-> extract_product(fn.text)]
    /\ UNCHANGED pipeline_vars

\* match_title(text, extract_product(target))
MatchTitle ==
    /\ fn.op = "args"
    /\ fn' = [op |-> "match_title", text |-> fn.text, target |-> fn.target,
              out |-> match_title(fn.text, extract_product(fn.target))]
    /\ UNCHANGED pipeline_vars

NextText ==
    \/ NormalizeModel
    \/ ExtractProduct
    \/ MatchTitle

SpecText == InitText /\ [][NextText]_vars

----------------------------------------------------------------------------
(* Properties of the text functions *)

HasAccessoryKeyword(title) ==
    \E x \in ACCESSORY_NEGATIVES : Contains(normalize_text(title), x)

\* C17: match_title rejects every title whose normalized text contains an accessory
\* keyword, whatever the target and whether or not the title also names the target's
\* model or brand.
C17_AccessoryVeto ==
    (fn.op = "match_title" /\ HasAccessoryKeyword(fn.text)) => fn.out = FALSE

\* a rejected title that holds an accessory keyword next to the target's model
C17_Witness ==
    /\ fn.op = "match_title"
    /\ fn.target = FragModel
    /\ HasAccessoryKeyword(fn.text)
    /\ Contains(normalize_model(fn.text), normalize_model(FragModel))
    /\ fn.out = FALSE

\* C18 as stated: for a title without accessory keyword the result is, when the target
\* has a normalized model, "the normalized model is a substring of the normalized
\* title" (the title under normalize_text, as in the keyword test), else when the
\* target has a brand "the brand is a substring of the normalized title", else accepted.
C18_PriorityOverNormalizedText ==
    (fn.op = "match_title" /\ ~HasAccessoryKeyword(fn.text)) =>
        LET product == extract_product(fn.target)
            t == normalize_text(fn.text)
        IN fn.out = IF Truthy(product.model_norm) THEN Contains(t, product.model_norm.v)
                    ELSE IF Truthy(product.brand) THEN Contains(t, product.brand.v)
                    ELSE TRUE

\* C18 amended: the model is looked for in the title normalized the way the model is
\* (normalize_model: lower case, letters and digits only), the brand in the title
\* under normalize_text; a target with a model never has its brand consulted.
C18_PriorityOverModelNormalizedTitle ==
    (fn.op = "match_title" /\ ~HasAccessoryKeyword(fn.text)) =>
        LET product == extract_product(fn.target)
        IN fn.out = IF Truthy(product.model_norm)
                    THEN Contains(normalize_model(fn.text), product.model_norm.v)
                    ELSE IF Truthy(product.brand)
                    THEN Contains(normalize_text(fn.text), product.brand.v)
                    ELSE TRUE

\* a title accepted on its model although it lacks the brand the target also has
C18_Witness ==
    /\ fn.op = "match_title"
    /\ fn.target = FragSony \o <<" ">> \o FragModel
    /\ ~HasAccessoryKeyword(fn.text)
    /\ ~Contains(normalize_text(fn.text), Lower(FragSony))
    /\ fn.out = TRUE

\* C19: normalize_model is idempotent, and its output holds only a-z and 0-9.
C19_NormalizeModelIdempotent ==
    fn.op = "normalize_model" =>
        /\ normalize_model(fn.out) = fn.out
        /\ \A k \in 1..Len(fn.out) :
              fn.out[k] \in {LowerCase[n] : n \in 1..26} \cup Digits

\* an input with capitals, a hyphen and white space, normalized to something
C19_Witness ==
    /\ fn.op = "normalize_model"
    /\ fn.text = FragSony \o <<"\t">> \o FragModel
    /\ fn.out = <<"s","o","n","y","x","m","4","0">>

\* C20: extract_product returns a product with a non-empty signature for every
\* description, the empty and the blank ones included.
C20_SignatureNonEmpty ==
    fn.op = "extract_product" => fn.out.signature # <<>>

----------------------------------------------------------------------------
(* The embedded-state extractor: the brace scanner                         *)

\* the index of the quote that ends the string opened at index j, -1 when the text ends
\* inside the string (in_str and esc): the first quote of the same kind after j that an
\* even number of backslashes of the string precede
ClosingQuote(text, j) ==
    LET backslashes(m) ==
            CHOOSE r \in 0..(m - j - 1) :
                /\ \A q \in 1..r : text[m - q + 1] = "\\"
                /\ r = m - j - 1 \/ text[m - r] # "\\"
        closing == {m \in (j + 1)..(Len(text) - 1) :
                       text[m + 1] = text[j + 1] /\ backslashes(m) % 2 = 0}
    IN IF closing = {} THEN -1 ELSE CHOOSE m \in closing : \A n \in closing : m <= n

RECURSIVE ScanBrackets(_, _, _, _)
\* the loop `for j in range(i, len(text))` from index j on, outside a string, at the
\* given depth (indices count from 0).  The characters that change nothing are passed
\* over up to the next quote or brace, and a string up to the quote that ends it.
ScanBrackets(text, i, j, depth) ==
    LET marks == {m \in j..(Len(text) - 1) : text[m + 1] \in {"'", "\"", "{", "}"}}
        m == CHOOSE n \in marks : \A o \in marks : n <= o
        ch == text[m + 1]
    IN IF marks = {} THEN None
       ELSE IF ch \in {"'", "\""}
       THEN (IF ClosingQuote(text, m) = -1 THEN None
             ELSE ScanBrackets(text, i, ClosingQuote(text, m) + 1, depth))
       ELSE IF ch = "{" THEN ScanBrackets(text, i, m + 1, depth + 1)
       ELSE IF depth - 1 = 0 THEN Str(SubSeq(text, i + 1, m + 1))
       ELSE ScanBrackets(text, i, m + 1, depth - 1)

\* a scanner that stops at the first closing brace, inside a string or not
extract_js_object_to_first_brace(text, start_idx) ==
    LET i == start_idx
        closing == {j \in i..(Len(text) - 1) : text[j + 1] = "}"}
    IN IF i < 0 \/ i >= Len(text) \/ text[i + 1] # "{" \/ closing = {} THEN None
       ELSE Str(SubSeq(text, i + 1, 1 + CHOOSE j \in closing : \A m \in closing : j <= m))
extract_js_object_by_brackets(text, start_idx) ==
    LET i == start_idx
    IN IF i < 0 \/ i >= Len(text) \/ text[i + 1] # "{" THEN None
       ELSE ScanBrackets(text, i, i, 0)

\* most items between the braces of a scanned object
MaxItems == 2

\* what a JavaScript object holds between its braces, each piece balanced in itself:
\* a plain character, and string literals holding a closing brace, an opening brace and
\* the other quote, an escaped quote before a brace, and an escaped backslash at the end
JsAtoms ==
    { <<"a">>,
      <<"\"", "}", "\"">>,
      <<"'", "{", "\"", "'">>,
      <<"\"", "\\", "\"", "}", "\"">>,
      <<"'", "\\", "\\", "'">> }
\* ... and nested objects
JsItems == JsAtoms \cup {<<"{">> \o a \o <<"}">> : a \in JsAtoms \cup {<<>>}}

JsObjects ==
    {<<"{">> \o Concat(items) \o <<"}">> :
        items \in UNION {[1..n -> JsItems] : n \in 0..MaxItems}}

\* the text before and after the object
JsBefore == {<<>>, <<"x", "=">>}
JsAfter == {<<>>, <<"}">>, <<";", "\"", "{">>}

\* the calls of extract_js_object_by_brackets: text, start_idx and, in object, the
\* balanced object that starts at start_idx (None when there is none)
BracketCalls ==
    LET whole == {[before |-> b, object |-> o, text |-> b \o o \o a] :
                      b \in JsBefore, o \in JsObjects, a \in JsAfter}
        cut == UNION {{[before |-> b, text |-> b \o SubSeq(o, 1, n)] :
                          b \in JsBefore, n \in 1..(Len(o) - 1)} : o \in JsObjects}
    IN  \* start_idx at the opening brace of a balanced object
        {[text |-> w.text, start_idx |-> Len(w.before), object |-> Str(w.object)] : w \in whole}
        \* start_idx at the opening brace of an object whose end is missing
        \cup {[text |-> c.text, start_idx |-> Len(c.before), object |-> None] : c \in cut}
        \* start_idx before the text, after it, or at a character that is no brace
        \cup UNION {{[text |-> w.text, start_idx |-> k, object |-> None] :
                        k \in {n \in {-1, Len(w.before) + 1, Len(w.text)} :
                                  n < 0 \/ n >= Len(w.text) \/ w.text[n + 1] # "{"}} :
                    w \in whole}

InitBrackets ==
    /\ NoPipeline
    /\ fn \in {[op |-> "args", text |-> c.text, start_idx |-> c.start_idx,
                object |-> c.object] : c \in BracketCalls}

\* extract_js_object_by_brackets(text, start_idx)
ExtractJsObject ==
    /\ fn.op = "args"
    /\ fn' = [fn EXCEPT !.op = "extract_js_object_by_brackets"] @@
             [out |-> extract_js_object_by_brackets(fn.text, fn.start_idx)]
    /\ UNCHANGED pipeline_vars

NextBrackets == ExtractJsObject

SpecBrackets == InitBrackets /\ [][NextBrackets]_vars

\* C13: started at the opening brace of an object whose braces are balanced outside
\* string literals, the scanner returns exactly that object, from its opening brace to
\* the matching closing brace and nothing beyond, whatever braces and escaped quotes its
\* strings hold; it returns None when start_idx is not at an opening brace or the
\* object never closes.
C13_ScannerReturnsTheObject ==
    fn.op = "extract_js_object_by_brackets" => fn.out = fn.object

\* an object followed by more text, with a string that holds an escaped quote and a
\* closing brace, returned whole
C13_Witness ==
    /\ fn.op = "extract_js_object_by_brackets"
    /\ fn.object # None
    /\ Contains(fn.object.v, <<"\\", "\"", "}", "\"">>)
    /\ Len(fn.text) > fn.start_idx + Len(fn.object.v)
    /\ fn.out = fn.object

----------------------------------------------------------------------------
(* The embedded-state extractor: json.loads and extract_preloaded_state    *)
(*                                                                         *)
(* Parsed values: None (null), [kind "bool"], [kind "num"] (sign, integer  *)
(* part, digits of the fraction), Str, [kind "list"] and [kind "dict"]     *)
(* (its items in insertion order).  The payloads of this model hold no     *)
(* \b and \u escapes, no exponents and no NaN or Infinity.                 *)

Bool(b) == [kind |-> "bool", v |-> b]
Num(neg, int, frac) == [kind |-> "num", neg |-> neg, int |-> int, frac |-> frac]
List(items) == [kind |-> "list", items |-> items]
Dict(items) == [kind |-> "dict", items |-> items]

\* d[key] = value on the items of a dict
Put(items, key, value) ==
    IF \E n \in 1..Len(items) : items[n].k = key
    THEN [n \in 1..Len(items) |->
             IF items[n].k = key THEN [k |-> key, v |-> value] ELSE items[n]]
    ELSE Append(items, [k |-> key, v |-> value])

\* outcome of a parsing step: failed, or a value and the position after it
Fail == [ok |-> FALSE]
Ok(val, end) == [ok |-> TRUE, val |-> val, end |-> end]

\* characters a JSON string may not hold unescaped
ControlChars == {"\t", "\n", "\r"}

\* the character an escape sequence stands for
Unescape(c) ==
    CASE c = "n" -> "\n"
      [] c = "t" -> "\t"
      [] c = "r" -> "\r"
      [] c = "f" -> "\f"
      [] OTHER -> c

RECURSIVE SkipWhitespace(_, _)
SkipWhitespace(s, p) ==
    IF p <= Len(s) /\ s[p] \in Whitespace THEN SkipWhitespace(s, p + 1) ELSE p

\* s.startswith(w, p - 1)
StartsWith(s, p, w) ==
    p + Len(w) - 1 <= Len(s) /\ SubSeq(s, p, p + Len(w) - 1) = w

RECURSIVE DigitsValue(_)
\* int() of a string of digits
DigitsValue(ds) ==
    IF ds = <<>> THEN 0
    ELSE 10 * DigitsValue(SubSeq(ds, 1, Len(ds) - 1))
         + (CHOOSE n \in 0..9 : <<"0","1","2","3","4","5","6","7","8","9">>[n + 1] = ds[Len(ds)])

RECURSIVE ScanString(_, _, _)
\* the string literal whose opening quote is before position p
ScanString(s, p, chars) ==
    IF p > Len(s) THEN Fail
    ELSE IF s[p] = "\"" THEN Ok(Str(chars), p + 1)
    ELSE IF s[p] \in ControlChars THEN Fail
    ELSE IF s[p] # "\\" THEN ScanString(s, p + 1, Append(chars, s[p]))
    ELSE IF p + 1 <= Len(s) /\ s[p + 1] \in {"\"", "\\", "/", "f", "n", "r", "t"}
    THEN ScanString(s, p + 2, Append(chars, Unescape(s[p + 1])))
    ELSE Fail

\* the number literal at position p: -?(0|[1-9]\d*)(\.\d+)?
ScanNumber(s, p) ==
    LET neg == p <= Len(s) /\ s[p] = "-"
        q == IF neg THEN p + 1 ELSE p
        int_len == IF q <= Len(s) /\ s[q] = "0" THEN 1 ELSE RunLength(s, q, "\\d")
        r == q + int_len
        frac_len == IF r <= Len(s) /\ s[r] = "." THEN RunLength(s, r + 1, "\\d") ELSE 0
    IN IF int_len = 0 THEN Fail
       ELSE IF frac_len = 0
       THEN Ok(Num(neg /\ DigitsValue(SubSeq(s, q, r - 1)) # 0,
                   DigitsValue(SubSeq(s, q, r - 1)), <<>>), r)
       ELSE Ok(Num(neg, DigitsValue(SubSeq(s, q, r - 1)), SubSeq(s, r + 1, r + frac_len)),
               r + 1 + frac_len)

RECURSIVE ParseValue(_, _)
RECURSIVE ParseMembers(_, _, _)
RECURSIVE ParseElements(_, _, _)

\* the members of an object from the key whose opening quote is before position p
ParseMembers(s, p, items) ==
    LET key == ScanString(s, p, <<>>)
    IN IF ~key.ok THEN Fail
       ELSE LET colon == SkipWhitespace(s, key.end)
            IN IF colon > Len(s) \/ s[colon] # ":" THEN Fail
               ELSE LET value == ParseValue(s, SkipWhitespace(s, colon + 1))
                    IN IF ~value.ok THEN Fail
                       ELSE LET next == SkipWhitespace(s, value.end)
                                more == Put(items, key.val.v, value.val)
                            IN IF next > Len(s) THEN Fail
                               ELSE IF s[next] = "}" THEN Ok(Dict(more), next + 1)
                               ELSE IF s[next] # "," THEN Fail
                               ELSE LET quote == SkipWhitespace(s, next + 1)
                                    IN IF quote <= Len(s) /\ s[quote] = "\""
                                       THEN ParseMembers(s, quote + 1, more)
                                       ELSE Fail

\* the elements of an array from the value at position p
ParseElements(s, p, items) ==
    LET value == ParseValue(s, p)
    IN IF ~value.ok THEN Fail
       ELSE LET next == SkipWhitespace(s, value.end)
                more == Append(items, value.val)
            IN IF next > Len(s) THEN Fail
               ELSE IF s[next] = "]" THEN Ok(List(more), next + 1)
               ELSE IF s[next] # "," THEN Fail
               ELSE ParseElements(s, SkipWhitespace(s, next + 1), more)

\* the value at position p
ParseValue(s, p) ==
    IF p > Len(s) THEN Fail
    ELSE IF s[p] = "\"" THEN ScanString(s, p + 1, <<>>)
    ELSE IF s[p] = "{"
    THEN LET q == SkipWhitespace(s, p + 1)
         IN IF q > Len(s) THEN Fail
            ELSE IF s[q] = "}" THEN Ok(Dict(<<>>), q + 1)
            ELSE IF s[q] = "\"" THEN ParseMembers(s, q + 1, <<>>)
            ELSE Fail
    ELSE IF s[p] = "["
    THEN LET q == SkipWhitespace(s, p + 1)
         IN IF q > Len(s) THEN Fail
            ELSE IF s[q] = "]" THEN Ok(List(<<>>), q + 1)
            ELSE ParseElements(s, q, <<>>)
    ELSE IF StartsWith(s, p, <<"n","u","l","l">>) THEN Ok(None, p + 4)
    ELSE IF StartsWith(s, p, <<"t","r","u","e">>) THEN Ok(Bool(TRUE), p + 4)
    ELSE IF StartsWith(s, p, <<"f","a","l","s","e">>) THEN Ok(Bool(FALSE), p + 5)
    ELSE ScanNumber(s, p)

\* json.loads(s): the value, or the exception it raises
json_loads(s) ==
    LET value == ParseValue(s, SkipWhitespace(s, 1))
    IN IF value.ok /\ SkipWhitespace(s, value.end) = Len(s) + 1 THEN value.val
       ELSE Exc("JSONDecodeError", "json.loads")

IsException(x) == "exc_type" \in DOMAIN x

MARKER == <<"_","_","P","R","E","L","O","A","D","E","D","_","S","T","A","T","E","_","_">>

\* m.end() of re.search(r"__PRELOADED_STATE__\s*=\s*", html), -1 when there is no match
MarkerEnd(html) ==
    LET at(p) == SkipWhitespace(html, p + Len(MARKER))
        found == {p \in 1..Len(html) :
                     /\ StartsWith(html, p, MARKER)
                     /\ at(p) <= Len(html)
                     /\ html[at(p)] = "="}
    IN IF found = {} THEN -1
       ELSE SkipWhitespace(html, at(CHOOSE p \in found : \A m \in found : p <= m) + 1) - 1

\* text.find(c, k)
Find(text, c, k) ==
    LET found == {j \in k..(Len(text) - 1) : text[j + 1] = c}
    IN IF found = {} THEN -1 ELSE CHOOSE j \in found : \A m \in found : j <= m

RECURSIVE SubUndefined(_, _)
\* re.sub(r"\bundefined\b", "null", s), from position p on
SubUndefined(s, p) ==
    LET word == <<"u","n","d","e","f","i","n","e","d">>
    IN IF p > Len(s) THEN <<>>
       ELSE IF StartsWith(s, p, word) /\ WordBoundary(s, p) /\ WordBoundary(s, p + Len(word))
       THEN <<"n","u","l","l">> \o SubUndefined(s, p + Len(word))
       ELSE <<s[p]>> \o SubUndefined(s, p + 1)

RECURSIVE SubTrailingCommas(_, _)
\* re.sub(r",\s*([}\]])", r"\1", s), from position p on
SubTrailingCommas(s, p) ==
    IF p > Len(s) THEN <<>>
    ELSE LET q == SkipWhitespace(s, p + 1)
         IN IF s[p] = "," /\ q <= Len(s) /\ s[q] \in {"}", "]"}
            THEN <<s[q]>> \o SubTrailingCommas(s, q + 1)
            ELSE <<s[p]>> \o SubTrailingCommas(s, p + 1)

\* the payload cleaned before it is parsed at all
extract_preloaded_state_salvaging_first(html) ==
    LET k == MarkerEnd(html)
        brace == Find(html, "{", k)
        obj_str == extract_js_object_by_brackets(html, brace)
        cleaned == SubTrailingCommas(SubUndefined(obj_str.v, 1), 1)
    IN IF k = -1 THEN None
       ELSE IF brace = -1 THEN None
       ELSE IF ~Truthy(obj_str) THEN None
       ELSE IF ~IsException(json_loads(cleaned)) THEN json_loads(cleaned)
       ELSE None
extract_preloaded_state(html) ==
    LET k == MarkerEnd(html)
        brace == Find(html, "{", k)
        obj_str == extract_js_object_by_brackets(html, brace)
        cleaned == SubTrailingCommas(SubUndefined(obj_str.v, 1), 1)
    IN IF k = -1 THEN None
       ELSE IF brace = -1 THEN None
       ELSE IF ~Truthy(obj_str) THEN None
       ELSE IF ~IsException(json_loads(obj_str.v)) THEN json_loads(obj_str.v)
       ELSE IF ~IsException(json_loads(cleaned)) THEN json_loads(cleaned)
       ELSE None

----------------------------------------------------------------------------
(* Calls of extract_preloaded_state on generated pages                     *)

\* most members of the embedded object
MaxMembers == 2

\* members of the embedded object, their JSON text and what it stands for:
\*   "a":1   "b":"x,}"   "c":{"d":"undefined"}   "e":[1,"\""]   "f":null
StateMembers ==
    { [text |-> <<"\"","a","\"",":","1">>,
       k |-> <<"a">>, v |-> Num(FALSE, 1, <<>>)],
      [text |-> <<"\"","b","\"",":","\"","x",",","}","\"">>,
       k |-> <<"b">>, v |-> Str(<<"x",",","}">>)],
      [text |-> <<"\"","c","\"",":","{","\"","d","\"",":",
                  "\"","u","n","d","e","f","i","n","e","d","\"","}">>,
       k |-> <<"c">>,
       v |-> Dict(<<[k |-> <<"d">>, v |-> Str(<<"u","n","d","e","f","i","n","e","d">>)]>>)],
      [text |-> <<"\"","e","\"",":","[","1",",","\"","\\","\"","\"","]">>,
       k |-> <<"e">>, v |-> List(<<Num(FALSE, 1, <<>>), Str(<<"\"">>)>>)],
      [text |-> <<"\"","f","\"",":","n","u","l","l">>,
       k |-> <<"f">>, v |-> None] }

\* what only JavaScript accepts as a member ("g":undefined), and what neither
\* JavaScript's nor JSON's grammar repairs (h:'}')
MemberUndefined == <<"\"","g","\"",":","u","n","d","e","f","i","n","e","d">>
MemberInvalid == <<"h",":","'","}","'">>

RECURSIVE JoinMembers(_)
\* the members' text, separated by commas
JoinMembers(texts) ==
    IF texts = <<>> THEN <<>>
    ELSE IF Len(texts) = 1 THEN texts[1]
    ELSE texts[1] \o <<",">> \o JoinMembers(Tail(texts))

RECURSIVE MembersValue(_, _)
\* the dict a sequence of members stands for
MembersValue(ms, items) ==
    IF ms = <<>> THEN Dict(items)
    ELSE MembersValue(Tail(ms), Put(items, Head(ms).k, Head(ms).v))

\* the payloads a page embeds: JSON text, JavaScript that is no JSON (a trailing comma,
\* an undefined value), text no repair makes JSON, an object whose end is missing, and
\* no object at all; state is the value a JSON payload stands for
Payloads ==
    LET lists == UNION {[1..n -> StateMembers] : n \in 0..MaxMembers}
        texts(ms) == [n \in 1..Len(ms) |-> ms[n].text]
        object(ts) == <<"{">> \o JoinMembers(ts) \o <<"}">>
    IN  {[kind |-> "json", text |-> object(texts(ms)), state |-> MembersValue(ms, <<>>)] :
            ms \in lists}
        \cup {[kind |-> "javascript", state |-> None,
               text |-> <<"{">> \o JoinMembers(texts(ms)) \o <<",", " ", "}">>] :
                 ms \in lists \ {<<>>}}
        \cup {[kind |-> "javascript", state |-> None,
               text |-> object(Append(texts(ms), MemberUndefined))] : ms \in lists}
        \cup {[kind |-> "invalid", state |-> None,
               text |-> object(Append(texts(ms), MemberInvalid))] : ms \in lists}
        \cup {[kind |-> "cut", state |-> None,
               text |-> <<"{">> \o JoinMembers(texts(ms))] : ms \in lists}
        \cup {[kind |-> "none", state |-> None, text |-> <<>>]}

\* how the page announces the payload: the marker and an equals sign, with or without
\* white space; the marker without the equals sign; nothing
Markers ==
    { [found |-> TRUE, text |-> MARKER \o <<"=">>],
      [found |-> TRUE, text |-> MARKER \o <<" ", "=", "\n">>],
      [found |-> FALSE, text |-> MARKER \o <<":">>],
      [found |-> FALSE, text |-> <<>>] }

HtmlBefore == {<<>>, <<"<", "p", ">">>}
HtmlAfter == {<<>>, <<";">>}

InitState ==
    /\ NoPipeline
    /\ fn \in {[op |-> "args", html |-> b \o m.text \o p.text \o a,
                marker |-> m.found, payload |-> p.kind, state |-> p.state] :
                   b \in HtmlBefore, m \in Markers, p \in Payloads, a \in HtmlAfter}

\* extract_preloaded_state(html)
ExtractPreloadedState ==
    /\ fn.op = "args"
    /\ fn' = [fn EXCEPT !.op = "extract_preloaded_state"] @@
             [out |-> extract_preloaded_state(fn.html)]
    /\ UNCHANGED pipeline_vars

NextState == ExtractPreloadedState

SpecState == InitState /\ [][NextState]_vars

\* C14: extract_preloaded_state raises for no page; it returns None when the marker is
\* absent, when no opening brace follows it, when the braces do not balance and when
\* the object parses neither strictly nor after the repairs; a payload that parses
\* strictly is returned as it parses, untouched by the repairs.
C14_ExtractorNeverRaises ==
    fn.op = "extract_preloaded_state" =>
        /\ ~IsException(fn.out)
        /\ (~fn.marker \/ fn.payload \in {"none", "cut", "invalid"}) => fn.out = None
        /\ (fn.marker /\ fn.payload = "json") => fn.out = fn.state

\* a JSON payload whose strings the repairs would change, returned as it parses
C14_Witness ==
    /\ fn.op = "extract_preloaded_state"
    /\ fn.marker
    /\ fn.payload = "json"
    /\ \E n \in 1..Len(fn.out.items) :
          /\ fn.out.items[n].k = <<"b">>
          /\ fn.out.items[n].v = Str(<<"x", ",", "}">>)
    /\ fn.out = fn.state

----------------------------------------------------------------------------
(* The offer miners: offers_from_state and offers_from_jsonld              *)

\* x.get(key)
Get(x, key) ==
    LET hits == {n \in 1..Len(x.items) : x.items[n].k = key}
    IN IF hits = {} THEN None ELSE x.items[CHOOSE n \in hits : TRUE].v

\* a or b
Or(a, b) == IF Truthy(a) THEN a ELSE b

\* isinstance(v, (dict, list))
IsContainer(v) == v.kind \in {"dict", "list"}

RECURSIVE DigitsOf(_)
\* str() of a natural number
DigitsOf(n) ==
    LET last == <<<<"0","1","2","3","4","5","6","7","8","9">>[(n % 10) + 1]>>
    IN IF n < 10 THEN last ELSE DigitsOf(n \div 10) \o last

\* str(v) for None, a bool, a whole number and a str
PyStr(v) ==
    CASE v.kind = "str" -> v.v
      [] v.kind = "None" -> <<"N","o","n","e">>
      [] v.kind = "bool" -> IF v.v THEN <<"T","r","u","e">> ELSE <<"F","a","l","s","e">>
      [] v.kind = "num" -> (IF v.neg THEN <<"-">> ELSE <<>>) \o DigitsOf(v.int)

\* float() of a str: sign, digits, point, digits (the strings of this model hold no
\* exponent, underscore, inf or nan); the number or the ValueError
ParseFloat(s) ==
    LET signed == s # <<>> /\ s[1] \in {"+", "-"}
        q == IF signed THEN 2 ELSE 1
        int_len == RunLength(s, q, "\\d")
        r == q + int_len
        dot == r <= Len(s) /\ s[r] = "."
        frac_len == IF dot THEN RunLength(s, r + 1, "\\d") ELSE 0
        end == IF dot THEN r + 1 + frac_len ELSE r
    IN IF end = Len(s) + 1 /\ int_len + frac_len > 0
       THEN Num(signed /\ s[1] = "-", DigitsValue(SubSeq(s, q, r - 1)),
                SubSeq(s, r + 1, r + frac_len))
       ELSE Exc("ValueError", "float")

\* float(v): the number, or the exception raised
Float(v) ==
    CASE v.kind = "num" -> v
      [] v.kind = "bool" -> Num(FALSE, IF v.v THEN 1 ELSE 0, <<>>)
      [] v.kind = "str" -> ParseFloat(Strip(v.v))
      [] OTHER -> Exc("TypeError", "float")

\* Offer(title=..., price=..., ...): the record of its fields, built without validation
Offer(title, price, condition, url, item_id, source) ==
    [title |-> title, price |-> price, condition |-> condition, url |-> url,
     item_id |-> item_id, source |-> source]

\* the values of a dict or the elements of a list that are dicts or lists
Children(x) ==
    SelectSeq([n \in 1..Len(x.items) |-> IF x.kind = "dict" THEN x.items[n].v ELSE x.items[n]],
              IsContainer)

\* the offer a dict of the state yields, or None
StateOffer(x, product) ==
    LET title == Or(Get(x, <<"t","i","t","l","e">>), Get(x, <<"n","a","m","e">>))
        found == Get(x, <<"p","r","i","c","e">>)
        price == IF found.kind = "dict" THEN Or(Get(found, <<"a","m","o","u","n","t">>), Get(found, <<"v","a","l","u","e">>))
                 ELSE found
        url == Or(Or(Get(x, <<"p","e","r","m","a","l","i","n","k">>), Get(x, <<"u","r","l">>)), Str(<<>>))
        item_id == Or(Or(Get(x, <<"i","d">>), Get(x, <<"i","t","e","m","_","i","d">>)), Str(<<>>))
    IN IF Truthy(title) /\ price # None
          /\ ~IsException(Float(price)) /\ match_title(PyStr(title), product)
       THEN Offer(PyStr(title), Float(price),
                  PyStr(Or(Get(x, <<"c","o","n","d","i","t","i","o","n">>), Str(<<"u","n","k","n","o","w","n">>))),
                  PyStr(url), PyStr(item_id), "preloaded_state")
       ELSE None

RECURSIVE WalkState(_, _, _, _)
\* the loop `while stack and len(out) < limit` of offers_from_state
WalkState(stack, out, product, limit) ==
    IF stack = <<>> \/ ~(Len(out) < limit) THEN out
    ELSE LET x == stack[Len(stack)]
             rest == SubSeq(stack, 1, Len(stack) - 1)
         IN IF x.kind = "dict"
            THEN WalkState(rest \o Children(x),
                           IF StateOffer(x, product) # None
                           THEN Append(out, StateOffer(x, product)) ELSE out,
                           product, limit)
            ELSE IF x.kind = "list" THEN WalkState(rest \o Children(x), out, product, limit)
            ELSE WalkState(rest, out, product, limit)

offers_from_state(state, product, limit) == WalkState(<<state>>, <<>>, product, limit)

RECURSIVE OffersUrl(_, _)
\* url after the loop over a list of offers
OffersUrl(offers, url) ==
    IF offers = <<>> THEN url
    ELSE OffersUrl(Tail(offers),
                   IF Head(offers).kind = "dict" /\ ~Truthy(url)
                   THEN Or(Get(Head(offers), <<"u","r","l">>), url) ELSE url)

\* cand_prices of a node
CandidatePrices(node) ==
    LET offers == Get(node, <<"o","f","f","e","r","s">>)
    IN IF offers.kind = "dict" THEN <<Get(offers, <<"p","r","i","c","e">>)>>
       ELSE IF offers.kind = "list"
       THEN LET dicts == SelectSeq(offers.items, LAMBDA o : o.kind = "dict")
            IN [n \in 1..Len(dicts) |-> Get(dicts[n], <<"p","r","i","c","e">>)]
       ELSE <<>>

\* url of a node's offers
NodeUrl(node) ==
    LET offers == Get(node, <<"o","f","f","e","r","s">>)
        url == Or(Get(node, <<"u","r","l">>), Str(<<>>))
    IN IF offers.kind = "dict" THEN Or(Get(offers, <<"u","r","l">>), url)
       ELSE IF offers.kind = "list" THEN OffersUrl(offers.items, url)
       ELSE url

\* the offer a candidate price of a node yields, or None
JsonldOffer(node, pr, product) ==
    LET title == Or(Get(node, <<"n","a","m","e">>), Get(node, <<"t","i","t","l","e">>))
    IN IF Truthy(title) /\ pr # None
          /\ ~IsException(Float(pr)) /\ match_title(PyStr(title), product)
       THEN Offer(PyStr(title), Float(pr), <<"u","n","k","n","o","w","n">>, PyStr(NodeUrl(node)), <<>>, "jsonld")
       ELSE None

RECURSIVE WalkJsonld(_, _, _, _, _)
\* the loops `for node in nodes` and `for pr in cand_prices` from candidate price n of
\* the first of nodes on
WalkJsonld(nodes, n, out, product, limit) ==
    IF nodes = <<>> THEN out
    ELSE IF n > Len(CandidatePrices(Head(nodes)))
    THEN WalkJsonld(Tail(nodes), 1, out, product, limit)
    ELSE LET offer == JsonldOffer(Head(nodes), CandidatePrices(Head(nodes))[n], product)
         IN IF offer = None THEN WalkJsonld(nodes, n + 1, out, product, limit)
            ELSE IF Len(out) + 1 >= limit THEN Append(out, offer)
            ELSE WalkJsonld(nodes, n + 1, Append(out, offer), product, limit)

offers_from_jsonld(nodes, product, limit) == WalkJsonld(nodes, 1, <<>>, product, limit)

----------------------------------------------------------------------------
(* Calls of the offer miners on generated trees                            *)

\* most listings of a page
MaxNodes == 2
\* largest limit handed to a miner
MaxLimit == 2

TitleTarget == FragSony \o <<" ">> \o FragModel
TitleAccessory == <<"F","u","n","d","a"," ">> \o FragModel

\* what a page lists: title, price, and whether the listing holds a second price
\* (a variation in the state, a second offer in JSON-LD).  The prices are a number, an
\* object with an amount, zero, a negative number, text that is no number, a number
\* as text, and null.
Listings ==
    { [title |-> TitleTarget, price |-> Num(FALSE, 100, <<>>), twice |-> FALSE],
      [title |-> TitleTarget, price |-> Num(FALSE, 100, <<>>), twice |-> TRUE],
      [title |-> TitleTarget,
       price |-> Dict(<<[k |-> <<"a","m","o","u","n","t">>, v |-> Num(FALSE, 250, <<>>)]>>), twice |-> FALSE],
      [title |-> TitleAccessory, price |-> Num(FALSE, 50, <<>>), twice |-> FALSE],
      [title |-> TitleTarget, price |-> Num(FALSE, 0, <<>>), twice |-> FALSE],
      [title |-> TitleTarget, price |-> Num(TRUE, 5, <<>>), twice |-> FALSE],
      [title |-> TitleTarget, price |-> Str(<<"a","b","c">>), twice |-> FALSE],
      [title |-> FragModel, price |-> Str(<<"9","9",".","5">>), twice |-> FALSE],
      [title |-> TitleTarget, price |-> None, twice |-> FALSE] }

\* the second price of a listing that has two
SecondPrice == Num(FALSE, 120, <<>>)

\* a listing as a dict of the embedded state
StateItem(l) ==
    Dict(<<[k |-> <<"t","i","t","l","e">>, v |-> Str(l.title)], [k |-> <<"p","r","i","c","e">>, v |-> l.price]>>
         \o IF l.twice
            THEN <<[k |-> <<"v","a","r","i","a","t","i","o","n","s">>,
                    v |-> List(<<Dict(<<[k |-> <<"t","i","t","l","e">>, v |-> Str(l.title)],
                                        [k |-> <<"p","r","i","c","e">>, v |-> SecondPrice]>>)>>)]>>
            ELSE <<>>)

\* a listing as a JSON-LD node
JsonldNode(l) ==
    Dict(<<[k |-> <<"n","a","m","e">>, v |-> Str(l.title)],
           [k |-> <<"o","f","f","e","r","s">>,
            v |-> IF l.twice
                  THEN List(<<Dict(<<[k |-> <<"p","r","i","c","e">>, v |-> l.price]>>),
                              Dict(<<[k |-> <<"p","r","i","c","e">>, v |-> SecondPrice]>>)>>)
                  ELSE Dict(<<[k |-> <<"p","r","i","c","e">>, v |-> l.price]>>)]>>)

\* the embedded state of a page with the listings ls
StateTree(ls) ==
    Dict(<<[k |-> <<"r","e","s","u","l","t","s">>, v |-> List([n \in 1..Len(ls) |-> StateItem(ls[n])])]>>)

\* the JSON-LD nodes of a page with the listings ls
JsonldNodes(ls) == [n \in 1..Len(ls) |-> JsonldNode(ls[n])]

InitMiner ==
    /\ NoPipeline
    /\ fn \in {[op |-> "args", state |-> StateTree(ls), nodes |-> JsonldNodes(ls),
                target |-> t, limit |-> k] :
                   ls \in UNION {[1..n -> Listings] : n \in 0..MaxNodes},
                   t \in {TitleTarget, <<>>},
                   k \in 0..MaxLimit}

\* offers_from_state(state, extract_product(target), limit)
OffersFromState ==
    /\ fn.op = "args"
    /\ fn' = [fn EXCEPT !.op = "offers_from_state"] @@
             [out |-> offers_from_state(fn.state, extract_product(fn.target), fn.limit)]
    /\ UNCHANGED pipeline_vars

\* offers_from_jsonld(nodes, extract_product(target), limit)
OffersFromJsonld ==
    /\ fn.op = "args"
    /\ fn' = [fn EXCEPT !.op = "offers_from_jsonld"] @@
             [out |-> offers_from_jsonld(fn.nodes, extract_product(fn.target), fn.limit)]
    /\ UNCHANGED pipeline_vars

NextMiner ==
    \/ OffersFromState
    \/ OffersFromJsonld

SpecMiner == InitMiner /\ [][NextMiner]_vars

\* a number greater than zero
Positive(x) == ~x.neg /\ Truthy(x)

\* C15: whatever the tree or node list, the target and the limit (0 included), a
\* miner returns at most limit offers.
C15_AtMostLimitOffers ==
    fn.op \in {"offers_from_state", "offers_from_jsonld"} => Len(fn.out) <= fn.limit

\* C16: every offer a miner emits has a price greater than zero.
C16_PricesPositive ==
    fn.op \in {"offers_from_state", "offers_from_jsonld"} =>
        \A n \in 1..Len(fn.out) : Positive(fn.out[n].price)

\* title and price of the offers, the source tag left out
TitlesAndPrices(offers) ==
    [n \in 1..Len(offers) |-> [title |-> offers[n].title, price |-> offers[n].price]]

\* C25: both miners mine by one rule: a node yields an offer from offers_from_jsonld
\* exactly when the same node yields one from offers_from_state, and the offers of
\* the two differ in nothing but the source tag.
C25_MinersShareOneRule ==
    /\ (fn.op = "offers_from_jsonld" /\ fn.limit >= 1 /\ Len(fn.nodes) = 1) =>
          LET mined == offers_from_state(fn.nodes[1], extract_product(fn.target), fn.limit)
          IN /\ (fn.out # <<>>) <=> (mined # <<>>)
             /\ TitlesAndPrices(fn.out) = TitlesAndPrices(mined)
    /\ (fn.op = "offers_from_state" /\ fn.limit >= 1) =>
          LET mined == offers_from_jsonld(<<fn.state>>, extract_product(fn.target), fn.limit)
          IN /\ (fn.out # <<>>) <=> (mined # <<>>)
             /\ TitlesAndPrices(fn.out) = TitlesAndPrices(mined)

----------------------------------------------------------------------------
(* MLWebScraper: search_products and extract_product_details               *)
(*                                                                         *)
(* A page is its text and, in ld_json, what the pattern of                 *)
(* extract_jsonld_nodes finds in that text: the contents of its            *)
(* <script type="application/ld+json"> elements, in order.                 *)

\* key in x
Has(x, key) == \E n \in 1..Len(x.items) : x.items[n].k = key

\* x.get(key, default)
GetOr(x, key, default) == IF Has(x, key) THEN Get(x, key) ELSE default

RECURSIVE SubNonAlnum(_, _)
\* re.sub(r"[^a-z0-9]+", "-", s), from position k on
SubNonAlnum(s, k) ==
    LET alnum(c) == IsLower(c) \/ c \in Digits
    IN IF k > Len(s) THEN <<>>
       ELSE IF alnum(s[k]) THEN <<s[k]>> \o SubNonAlnum(s, k + 1)
       ELSE (IF k > 1 /\ ~alnum(s[k - 1]) THEN <<>> ELSE <<"-">>) \o SubNonAlnum(s, k + 1)

\* str.strip("-")
StripHyphens(s) ==
    LET kept == {k \in 1..Len(s) : s[k] # "-"}
    IN IF kept = {} THEN <<>>
       ELSE SubSeq(s, CHOOSE k \in kept : \A m \in kept : k <= m,
                      CHOOSE k \in kept : \A m \in kept : m <= k)

listing_url(query) ==
    <<"h","t","t","p","s",":","/","/","l","i","s","t","a","d","o",".","m","e","r","c","a","d","o","l","i","b","r","e",".","c","o","m",".","m","x","/">> \o StripHyphens(SubNonAlnum(normalize_text(query), 1))

RECURSIVE CollectNodes(_, _)
\* the loop `while stack` of extract_jsonld_nodes
CollectNodes(stack, nodes) ==
    IF stack = <<>> THEN nodes
    ELSE LET x == stack[Len(stack)]
             rest == SubSeq(stack, 1, Len(stack) - 1)
         IN IF x.kind = "dict"
            THEN CollectNodes(rest \o Children(x),
                     IF (Has(x, <<"n","a","m","e">>) \/ Has(x, <<"t","i","t","l","e">>)) /\ (Has(x, <<"o","f","f","e","r","s">>) \/ Has(x, <<"p","r","i","c","e">>))
                     THEN Append(nodes, x) ELSE nodes)
            ELSE IF x.kind = "list" THEN CollectNodes(rest \o Children(x), nodes)
            ELSE CollectNodes(rest, nodes)

RECURSIVE NodesOfBlocks(_, _)
\* the loop over the script elements
NodesOfBlocks(blocks, nodes) ==
    IF blocks = <<>> THEN nodes
    ELSE LET data == json_loads(Strip(Head(blocks)))
         IN NodesOfBlocks(Tail(blocks),
                IF IsException(data) THEN nodes ELSE CollectNodes(<<data>>, nodes))

extract_jsonld_nodes(html) == NodesOfBlocks(html.ld_json, <<>>)

\* whether session.get(...) and response.raise_for_status() raise: the request raised,
\* or the status is a 4xx or 5xx
FetchFailed(fetch) == fetch.raised # "" \/ (400 <= fetch.status /\ fetch.status < 600)

\* offers[:n] for n >= 0
Prefix(offers, n) == SubSeq(offers, 1, Min(n, Len(offers)))

\* F(x) with x evaluated once, as an assignment `v = x` followed by the statements F
Let(x, F(_)) == CHOOSE r \in {F(v) : v \in {x}} : TRUE

\* search_products that asks the JSON-LD nodes first and the embedded state second
search_products_jsonld_first(description, max_offers, fetch) ==
    Let(extract_product(description), LAMBDA product :
    IF FetchFailed(fetch)
    THEN [returned |-> [identified_product |-> product, strategy |-> "error",
                        listing_url |-> listing_url(product.signature), offers |-> <<>>],
          calls |-> <<>>]
    ELSE
    Let(offers_from_jsonld(extract_jsonld_nodes(fetch.response), product, max_offers * 6),
        LAMBDA from_jsonld :
    Let(IF from_jsonld = <<>> THEN extract_preloaded_state(fetch.response.text) ELSE None,
        LAMBDA state :
    Let(IF state.kind = "dict" THEN offers_from_state(state, product, max_offers * 6)
        ELSE <<>>, LAMBDA from_state :
        [returned |-> [identified_product |-> product,
                       strategy |-> IF from_jsonld # <<>> THEN "jsonld"
                                    ELSE IF from_state # <<>> THEN "preloaded_state"
                                    ELSE "no_offers",
                       listing_url |-> listing_url(product.signature),
                       offers |-> Prefix(IF from_jsonld # <<>> THEN from_jsonld
                                         ELSE from_state, max_offers)],
         calls |-> <<"extract_jsonld_nodes", "offers_from_jsonld">>
                   \o (IF from_jsonld = <<>> THEN <<"extract_preloaded_state">> ELSE <<>>)
                   \o (IF state.kind = "dict" THEN <<"offers_from_state">> ELSE <<>>)]))))
\* search_products without `offers = offers[:max_offers]`: all the miner returned
search_products_untruncated(description, max_offers, fetch) ==
    Let(extract_product(description), LAMBDA product :
    IF FetchFailed(fetch)
    THEN [returned |-> [identified_product |-> product, strategy |-> "error",
                        listing_url |-> listing_url(product.signature), offers |-> <<>>],
          calls |-> <<>>]
    ELSE
    Let(extract_preloaded_state(fetch.response.text), LAMBDA state :
    Let(IF state.kind = "dict" THEN offers_from_state(state, product, max_offers * 6)
        ELSE <<>>, LAMBDA from_state :
    Let(IF from_state = <<>>
        THEN offers_from_jsonld(extract_jsonld_nodes(fetch.response), product, max_offers * 6)
        ELSE <<>>, LAMBDA from_jsonld :
        [returned |-> [identified_product |-> product,
                       strategy |-> IF from_state # <<>> THEN "preloaded_state"
                                    ELSE IF from_jsonld # <<>> THEN "jsonld"
                                    ELSE "no_offers",
                       listing_url |-> listing_url(product.signature),
                       offers |-> IF from_state = <<>> THEN from_jsonld ELSE from_state],
         calls |-> <<"extract_preloaded_state">>
                   \o (IF state.kind = "dict" THEN <<"offers_from_state">> ELSE <<>>)
                   \o (IF from_state = <<>>
                       THEN <<"extract_jsonld_nodes", "offers_from_jsonld">> ELSE <<>>)]))))

\* search_products without response.raise_for_status(): only a request that raised fails
search_products_any_status(description, max_offers, fetch) ==
    Let(extract_product(description), LAMBDA product :
    IF fetch.raised # ""
    THEN [returned |-> [identified_product |-> product, strategy |-> "error",
                        listing_url |-> listing_url(product.signature), offers |-> <<>>],
          calls |-> <<>>]
    ELSE
    Let(extract_preloaded_state(fetch.response.text), LAMBDA state :
    Let(IF state.kind = "dict" THEN offers_from_state(state, product, max_offers * 6)
        ELSE <<>>, LAMBDA from_state :
    Let(IF from_state = <<>>
        THEN offers_from_jsonld(extract_jsonld_nodes(fetch.response), product, max_offers * 6)
        ELSE <<>>, LAMBDA from_jsonld :
        [returned |-> [identified_product |-> product,
                       strategy |-> IF from_state # <<>> THEN "preloaded_state"
                                    ELSE IF from_jsonld # <<>> THEN "jsonld"
                                    ELSE "no_offers",
                       listing_url |-> listing_url(product.signature),
                       offers |-> Prefix(IF from_state = <<>> THEN from_jsonld
                                         ELSE from_state, max_offers)],
         calls |-> <<"extract_preloaded_state">>
                   \o (IF state.kind = "dict" THEN <<"offers_from_state">> ELSE <<>>)
                   \o (IF from_state = <<>>
                       THEN <<"extract_jsonld_nodes", "offers_from_jsonld">> ELSE <<>>)]))))
\* search_products(description, max_offers) when session.get ends as fetch says: the
\* ScrapingResult it returns, but for its timestamp, and, in calls, the extractors and
\* miners it called
search_products(description, max_offers, fetch) ==
    Let(extract_product(description), LAMBDA product :
    IF FetchFailed(fetch)
    THEN [returned |-> [identified_product |-> product, strategy |-> "error",
                        listing_url |-> listing_url(product.signature), offers |-> <<>>],
          calls |-> <<>>]
    ELSE
    Let(extract_preloaded_state(fetch.response.text), LAMBDA state :
    Let(IF state.kind = "dict" THEN offers_from_state(state, product, max_offers * 6)
        ELSE <<>>, LAMBDA from_state :
    Let(IF from_state = <<>>
        THEN offers_from_jsonld(extract_jsonld_nodes(fetch.response), product, max_offers * 6)
        ELSE <<>>, LAMBDA from_jsonld :
        [returned |-> [identified_product |-> product,
                       strategy |-> IF from_state # <<>> THEN "preloaded_state"
                                    ELSE IF from_jsonld # <<>> THEN "jsonld"
                                    ELSE "no_offers",
                       listing_url |-> listing_url(product.signature),
                       offers |-> Prefix(IF from_state = <<>> THEN from_jsonld
                                         ELSE from_state, max_offers)],
         calls |-> <<"extract_preloaded_state">>
                   \o (IF state.kind = "dict" THEN <<"offers_from_state">> ELSE <<>>)
                   \o (IF from_state = <<>>
                       THEN <<"extract_jsonld_nodes", "offers_from_jsonld">> ELSE <<>>)]))))


\* ProductDetails(product_id=..., ...): the dataclass instance as the record of its fields
ProductDetails(product_id, title, price, currency, condition, brand, model, category, attributes, description, images, seller_name, permalink) ==
    [product_id |-> product_id, title |-> title, price |-> price, currency |-> currency,
     condition |-> condition, brand |-> brand, model |-> model, category |-> category,
     attributes |-> attributes, description |-> description, images |-> images,
     seller_name |-> seller_name, permalink |-> permalink]

\* whether `for x in v` raises TypeError
NotIterable(v) == v.kind \in {"None", "bool", "num"}

\* the dicts `for x in v` yields: those among the elements of a list (the keys of a
\* dict and the characters of a str are no dicts)
DictsIn(v) ==
    IF v.kind = "list" THEN SelectSeq(v.items, LAMBDA x : x.kind = "dict") ELSE <<>>

RECURSIVE Attributes(_, _)
\* the loop filling attributes: the dict, keyed by the names as values, or the TypeError
\* of a name that cannot be hashed
Attributes(attrs, attributes) ==
    IF attrs = <<>> THEN Dict(attributes)
    ELSE LET attr == Head(attrs)
             name == Or(Get(attr, <<"n","a","m","e">>), Get(attr, <<"i","d">>))
             value == Or(Get(attr, <<"v","a","l","u","e","_","n","a","m","e">>), Get(attr, <<"v","a","l","u","e">>))
         IN IF ~(Truthy(name) /\ Truthy(value)) THEN Attributes(Tail(attrs), attributes)
            ELSE IF IsContainer(name) THEN Exc("TypeError", "attributes[name]")
            ELSE Attributes(Tail(attrs), Put(attributes, name, value))

\* MLWebScraper._extract_details_from_state: the ProductDetails, or None
extract_details_from_state(state, url) ==
    LET components == GetOr(state, <<"c","o","m","p","o","n","e","n","t","s">>, Dict(<<>>))
        holders == IF components.kind # "dict" THEN {}
                   ELSE {n \in 1..Len(components.items) :
                            /\ components.items[n].v.kind = "dict"
                            /\ \/ Has(components.items[n].v, <<"p","r","o","d","u","c","t">>)
                               \/ Has(components.items[n].v, <<"i","t","e","m">>)}
        value == components.items[CHOOSE n \in holders : \A m \in holders : n <= m].v
        product_data == IF Has(value, <<"p","r","o","d","u","c","t">>) THEN Get(value, <<"p","r","o","d","u","c","t">>) ELSE Get(value, <<"i","t","e","m">>)
        attrs == GetOr(product_data, <<"a","t","t","r","i","b","u","t","e","s">>, List(<<>>))
        attributes == IF Has(product_data, <<"a","t","t","r","i","b","u","t","e","s">>)
                      THEN Attributes(DictsIn(attrs), <<>>) ELSE Dict(<<>>)
        pictures == GetOr(product_data, <<"p","i","c","t","u","r","e","s">>, List(<<>>))
        with_url == SelectSeq(DictsIn(pictures), LAMBDA pic : Has(pic, <<"u","r","l">>))
        images == IF Has(product_data, <<"p","i","c","t","u","r","e","s">>)
                  THEN [n \in 1..Len(with_url) |-> Get(with_url[n], <<"u","r","l">>)] ELSE <<>>
        price == Float(GetOr(product_data, <<"p","r","i","c","e">>, Num(FALSE, 0, <<>>)))
        seller == Get(product_data, <<"s","e","l","l","e","r">>)
    IN IF components.kind # "dict" THEN None
       ELSE IF holders = {} THEN None
       ELSE IF ~Truthy(product_data) THEN None
       ELSE IF product_data.kind # "dict" THEN None
       ELSE IF Has(product_data, <<"a","t","t","r","i","b","u","t","e","s">>) /\ NotIterable(attrs) THEN None
       ELSE IF IsException(attributes) THEN None
       ELSE IF Has(product_data, <<"p","i","c","t","u","r","e","s">>) /\ NotIterable(pictures) THEN None
       ELSE IF IsException(price) THEN None
       ELSE ProductDetails(GetOr(product_data, <<"i","d">>, Str(<<>>)),
                           GetOr(product_data, <<"t","i","t","l","e">>, Str(<<>>)),
                           price,
                           GetOr(product_data, <<"c","u","r","r","e","n","c","y","_","i","d">>, Str(<<"M","X","N">>)),
                           GetOr(product_data, <<"c","o","n","d","i","t","i","o","n">>, Str(<<"u","n","k","n","o","w","n">>)),
                           Or(Get(attributes, Str(<<"M","a","r","c","a">>)), Get(attributes, Str(<<"B","R","A","N","D">>))),
                           Or(Get(attributes, Str(<<"M","o","d","e","l","o">>)), Get(attributes, Str(<<"M","O","D","E","L">>))),
                           Get(product_data, <<"c","a","t","e","g","o","r","y","_","i","d">>),
                           attributes,
                           Get(product_data, <<"d","e","s","c","r","i","p","t","i","o","n">>),
                           List(images),
                           IF seller.kind = "dict" THEN Get(seller, <<"n","i","c","k","n","a","m","e">>) ELSE None,
                           Str(url))

\* re.search(r"ML[A-Z]\d+", url): group(0), or the empty text when nothing matches
SearchProductId(url) ==
    LET starts == {k \in 1..(Len(url) - 3) :
                      /\ url[k] = "M" /\ url[k + 1] = "L"
                      /\ \E u \in 1..26 : UpperCase[u] = url[k + 2]
                      /\ url[k + 3] \in Digits}
        first == CHOOSE k \in starts : \A m \in starts : k <= m
    IN IF starts = {} THEN <<>>
       ELSE SubSeq(url, first, first + 2 + RunLength(url, first + 3, "\\d"))

\* MLWebScraper._extract_details_from_jsonld: the ProductDetails, or None
extract_details_from_jsonld(nodes, url) ==
    LET products == {n \in 1..Len(nodes) : Get(nodes[n], <<"@","t","y","p","e">>) = Str(<<"P","r","o","d","u","c","t">>)}
        product_node == nodes[CHOOSE n \in products : \A m \in products : n <= m]
        found == GetOr(product_node, <<"o","f","f","e","r","s">>, Dict(<<>>))
        offers_data == IF found.kind = "list" /\ found.items # <<>> THEN found.items[1] ELSE found
        price == IF offers_data.kind = "dict"
                 THEN Float(GetOr(offers_data, <<"p","r","i","c","e">>, Num(FALSE, 0, <<>>)))
                 ELSE Num(FALSE, 0, <<>>)
        currency == IF offers_data.kind = "dict"
                    THEN GetOr(offers_data, <<"p","r","i","c","e","C","u","r","r","e","n","c","y">>, Str(<<"M","X","N">>)) ELSE Str(<<"M","X","N">>)
        brand_data == Get(product_node, <<"b","r","a","n","d">>)
        brand == IF brand_data.kind = "dict" THEN Get(brand_data, <<"n","a","m","e">>)
                 ELSE IF brand_data.kind = "str" THEN brand_data ELSE None
        image_data == GetOr(product_node, <<"i","m","a","g","e">>, List(<<>>))
        shown == IF image_data.kind = "list" THEN SelectSeq(image_data.items, Truthy) ELSE <<>>
        images == IF image_data.kind = "str" THEN <<image_data>>
                  ELSE [n \in 1..Len(shown) |->
                           IF shown[n].kind = "str" THEN shown[n] ELSE Get(shown[n], <<"u","r","l">>)]
        sku == GetOr(product_node, <<"s","k","u">>, Str(<<>>))
        product_id == IF Truthy(sku) THEN sku ELSE Str(SearchProductId(url))
    IN IF products = {} THEN None
       ELSE IF IsException(price) THEN None
       ELSE IF \E n \in 1..Len(shown) : shown[n].kind \notin {"str", "dict"} THEN None
       ELSE ProductDetails(product_id,
                           GetOr(product_node, <<"n","a","m","e">>, Str(<<>>)),
                           price,
                           currency,
                           GetOr(product_node, <<"i","t","e","m","C","o","n","d","i","t","i","o","n">>, Str(<<"u","n","k","n","o","w","n">>)),
                           brand,
                           Get(product_node, <<"m","o","d","e","l">>),
                           Get(product_node, <<"c","a","t","e","g","o","r","y">>),
                           Dict(<<>>),
                           Get(product_node, <<"d","e","s","c","r","i","p","t","i","o","n">>),
                           List(images),
                           None,
                           Str(url))

\* extract_product_details(product_url) when requests.get ends as fetch says
extract_product_details(product_url, fetch) ==
    IF FetchFailed(fetch) THEN None
    ELSE
    Let(extract_preloaded_state(fetch.response.text), LAMBDA state :
    Let(IF Truthy(state) THEN extract_details_from_state(state, product_url) ELSE None,
        LAMBDA from_state :
    IF from_state # None THEN from_state
    ELSE Let(extract_jsonld_nodes(fetch.response), LAMBDA nodes :
         IF nodes # <<>> THEN extract_details_from_jsonld(nodes, product_url) ELSE None)))


----------------------------------------------------------------------------
(* The pages MLWebScraper is given, and the calls made on them             *)

\* listings the embedded state of a page holds at most
MaxListed == 2
\* the largest max_offers asked for
MaxWanted == 1

RECURSIVE Dumps(_)
\* a value as the JSON text a page carries it in
Dumps(v) ==
    LET quoted(s) == <<"\"">> \o Concat([n \in 1..Len(s) |->
                                   IF s[n] \in {"\"", "\\"} THEN <<"\\", s[n]>> ELSE <<s[n]>>])
                     \o <<"\"">>
        joined(parts) == Concat([n \in 1..Len(parts) |->
                                    (IF n > 1 THEN <<","," ">> ELSE <<>>) \o parts[n]])
    IN CASE v.kind = "None" -> <<"n","u","l","l">>
         [] v.kind = "bool" -> IF v.v THEN <<"t","r","u","e">> ELSE <<"f","a","l","s","e">>
         [] v.kind = "num" -> (IF v.neg THEN <<"-">> ELSE <<>>) \o DigitsOf(v.int)
                              \o (IF v.frac = <<>> THEN <<>> ELSE <<".">> \o v.frac)
         [] v.kind = "str" -> quoted(v.v)
         [] v.kind = "list" -> <<"[">> \o joined([n \in 1..Len(v.items) |-> Dumps(v.items[n])])
                               \o <<"]">>
         [] v.kind = "dict" -> <<"{">> \o joined([n \in 1..Len(v.items) |->
                                          quoted(v.items[n].k) \o <<":"," ">> \o Dumps(v.items[n].v)])
                               \o <<"}">>

\* the listings of the pages: the product looked for and an accessory of it
Listed ==
    { [title |-> TitleTarget, price |-> Num(FALSE, 100, <<>>), twice |-> FALSE],
      [title |-> TitleAccessory, price |-> Num(FALSE, 50, <<>>), twice |-> FALSE] }

\* the URL of a product page
ProductUrl == <<"h","t","t","p","s",":","/","/","w","w","w",".","m","e","r","c","a","d","o","l","i","b","r","e",".","c","o","m",".","m","x","/","p","/","M","L","M","1">>

\* the embedded state of a product page
DetailState ==
    Dict(<<[k |-> <<"c","o","m","p","o","n","e","n","t","s">>, v |-> Dict(<<
        [k |-> <<"h","e","a","d">>, v |-> Dict(<<[k |-> <<"t","i","t","l","e">>, v |-> Str(FragSony)]>>)],
        [k |-> <<"m","a","i","n">>, v |-> Dict(<<[k |-> <<"p","r","o","d","u","c","t">>, v |-> Dict(<<
            [k |-> <<"i","d">>, v |-> Str(<<"M","L","M","1">>)],
            [k |-> <<"t","i","t","l","e">>, v |-> Str(TitleTarget)],
            [k |-> <<"p","r","i","c","e">>, v |-> Str(<<"1","0","0",".","5">>)],
            [k |-> <<"a","t","t","r","i","b","u","t","e","s">>, v |-> List(<<
                Dict(<<[k |-> <<"n","a","m","e">>, v |-> Str(<<"M","a","r","c","a">>)], [k |-> <<"v","a","l","u","e","_","n","a","m","e">>, v |-> Str(FragSony)]>>),
                Dict(<<[k |-> <<"i","d">>, v |-> Str(<<"M","O","D","E","L">>)], [k |-> <<"v","a","l","u","e">>, v |-> Str(FragModel)]>>),
                Dict(<<[k |-> <<"n","a","m","e">>, v |-> Str(<<"C","o","l","o","r">>)]>>)>>)],
            [k |-> <<"p","i","c","t","u","r","e","s">>, v |-> List(<<Dict(<<[k |-> <<"u","r","l">>, v |-> Str(<<"a",".","j","p","g">>)]>>), Str(<<"b",".","j","p","g">>)>>)],
            [k |-> <<"s","e","l","l","e","r">>, v |-> Dict(<<[k |-> <<"n","i","c","k","n","a","m","e">>, v |-> Str(<<"l","o","u","d","e","r">>)]>>)]>>)]>>)]>>)]>>)

\* the JSON-LD node of a product, which is a listing of TitleTarget as well
ProductNode ==
    Dict(<<[k |-> <<"@","t","y","p","e">>, v |-> Str(<<"P","r","o","d","u","c","t">>)],
           [k |-> <<"n","a","m","e">>, v |-> Str(TitleTarget)],
           [k |-> <<"b","r","a","n","d">>, v |-> Dict(<<[k |-> <<"n","a","m","e">>, v |-> Str(FragSony)]>>)],
           [k |-> <<"i","m","a","g","e">>, v |-> List(<<Str(<<"a",".","j","p","g">>), Dict(<<[k |-> <<"u","r","l">>, v |-> Str(<<"b",".","j","p","g">>)]>>)>>)],
           [k |-> <<"o","f","f","e","r","s">>, v |-> Dict(<<[k |-> <<"p","r","i","c","e">>, v |-> Num(FALSE, 100, <<>>)],
                                          [k |-> <<"p","r","i","c","e","C","u","r","r","e","n","c","y">>, v |-> Str(<<"M","X","N">>)]>>)]>>)

\* the script element assigning the embedded state: none, one that is no JSON and
\* cannot be repaired, the state of a listing page, the state of a product page
StateScripts ==
    LET script(payload) == <<"<","s","c","r","i","p","t",">","w","i","n","d","o","w",".","_","_","P","R","E","L","O","A","D","E","D","_","S","T","A","T","E","_","_"," ","="," ">> \o payload \o <<";","<","/","s","c","r","i","p","t",">">>
    IN {[state |-> "absent", listed |-> <<>>, text |-> <<>>],
        [state |-> "unparsable", listed |-> <<>>, text |-> script(<<"{","r","e","s","u","l","t","s",":"," ","[","o","o","p","s","]","}">>)],
        [state |-> "details", listed |-> <<>>, text |-> script(Dumps(DetailState))]}
       \cup {[state |-> "listing", listed |-> ls, text |-> script(Dumps(StateTree(ls)))] :
                ls \in UNION {[1..n -> Listed] : n \in 0..MaxListed}}

\* the contents of a JSON-LD script element: a product, an accessory, or no JSON
LdJsonBlocks ==
    {[block |-> "product", text |-> Dumps(ProductNode)],
     [block |-> "accessory",
      text |-> <<"\n", " ">> \o Dumps(List(<<JsonldNode(CHOOSE l \in Listed : l.title = TitleAccessory)>>)) \o <<"\n">>],
     [block |-> "invalid", text |-> <<"{","\"","n","a","m","e","\"",":"," ">>]}

\* the JSON-LD script elements of a page, in order
LdJsonScripts ==
    LET block(b) == CHOOSE x \in LdJsonBlocks : x.block = b
    IN {<<>>, <<block("product")>>, <<block("accessory")>>, <<block("invalid")>>,
        <<block("invalid"), block("product")>>, <<block("accessory"), block("product")>>}

\* response.text and the script elements the pattern of extract_jsonld_nodes finds in it
Page(script, blocks) ==
    [text |-> <<"<","h","t","m","l",">">> \o script.text
              \o Concat([n \in 1..Len(blocks) |->
                    <<"<","s","c","r","i","p","t"," ","t","y","p","e","=","\"","a","p","p","l","i","c","a","t","i","o","n","/","l","d","+","j","s","o","n","\"",">">> \o blocks[n].text \o <<"<","/","s","c","r","i","p","t",">">>])
              \o <<"<","/","h","t","m","l",">">>,
     ld_json |-> [n \in 1..Len(blocks) |-> blocks[n].text]]

\* how a request ends: it raises (requests.ConnectionError, requests.Timeout), or a
\* response arrives with a status and a page
Fetches ==
    {[raised |-> e, status |-> 0, response |-> Page([text |-> <<>>], <<>>),
      state |-> "absent", listed |-> <<>>, blocks |-> <<>>] : e \in {"ConnectionError", "Timeout"}}
    \cup {[raised |-> "", status |-> s, response |-> Page(script, blocks),
           state |-> script.state, listed |-> script.listed,
           blocks |-> [n \in 1..Len(blocks) |-> blocks[n].block]] :
              s \in {200, 404, 503},
              script \in StateScripts,
              blocks \in LdJsonScripts}

InitScraper ==
    /\ NoPipeline
    /\ fn \in {[op |-> "args", description |-> d, max_offers |-> k,
                product_url |-> ProductUrl, fetch |-> f] :
                   d \in {TitleTarget, <<>>}, k \in 0..MaxWanted, f \in Fetches}

\* MLWebScraper().search_products(description, max_offers)
SearchProducts ==
    /\ fn.op = "args"
    /\ \E done \in {search_products(fn.description, fn.max_offers, fn.fetch)} :
          fn' = [fn EXCEPT !.op = "search_products"] @@
                [out |-> done.returned, calls |-> done.calls]
    /\ UNCHANGED pipeline_vars

\* MLWebScraper().extract_product_details(product_url)
ExtractProductDetails ==
    /\ fn.op = "args"
    /\ fn' = [fn EXCEPT !.op = "extract_product_details"] @@
             [out |-> extract_product_details(fn.product_url, fn.fetch)]
    /\ UNCHANGED pipeline_vars

NextScraper ==
    \/ SearchProducts
    \/ ExtractProductDetails

SpecScraper == InitScraper /\ [][NextScraper]_vars

\* the request raised or the status of the response is no success
FetchFails == fn.fetch.raised # "" \/ fn.fetch.status >= 400

\* what the strategy of the embedded state produces on the page fetched
ProducedByState ==
    LET state == extract_preloaded_state(fn.fetch.response.text)
    IN IF state.kind = "dict"
       THEN offers_from_state(state, extract_product(fn.description), fn.max_offers * 6)
       ELSE <<>>

\* what the strategy of JSON-LD produces on the page fetched
ProducedByJsonld ==
    offers_from_jsonld(extract_jsonld_nodes(fn.fetch.response),
                       extract_product(fn.description), fn.max_offers * 6)

\* positions in fn.calls of the calls of a function
CallsOf(name) == {n \in 1..Len(fn.calls) : fn.calls[n] = name}

\* C11: after a successful fetch search_products asks the embedded state first; it asks
\* JSON-LD exactly when the embedded-state strategy produced no offer (no state, a state
\* that cannot be parsed, or one yielding no accepted offer), and after the state; the
\* strategy returned is preloaded_state when the state produced an offer, jsonld when
\* only JSON-LD did, no_offers when neither did
C11_StrategyOrder ==
    (fn.op = "search_products" /\ ~FetchFails) =>
        /\ CallsOf("extract_preloaded_state") = {1}
        /\ (CallsOf("extract_jsonld_nodes") # {}) <=> (ProducedByState = <<>>)
        /\ (CallsOf("offers_from_jsonld") # {}) <=> (ProducedByState = <<>>)
        /\ \A n \in CallsOf("extract_jsonld_nodes") \cup CallsOf("offers_from_jsonld") :
              \A m \in CallsOf("extract_preloaded_state") \cup CallsOf("offers_from_state") : m < n
        /\ (fn.out.strategy = "preloaded_state") <=> (ProducedByState # <<>>)
        /\ (fn.out.strategy = "jsonld") <=> (ProducedByState = <<>> /\ ProducedByJsonld # <<>>)
        /\ (fn.out.strategy = "no_offers") <=> (ProducedByState = <<>> /\ ProducedByJsonld = <<>>)

\* a state that parses and lists only an accessory, so that the offer of the result
\* comes from the JSON-LD product
C11_Witness ==
    /\ fn.op = "search_products"
    /\ ~FetchFails
    /\ fn.max_offers = 1
    /\ fn.fetch.state = "listing"
    /\ Len(fn.fetch.listed) = 1
    /\ fn.fetch.listed[1].title = TitleAccessory
    /\ fn.fetch.blocks = <<"invalid", "product">>
    /\ fn.calls = <<"extract_preloaded_state", "offers_from_state",
                    "extract_jsonld_nodes", "offers_from_jsonld">>
    /\ fn.out.strategy = "jsonld"
    /\ Len(fn.out.offers) = 1
    /\ fn.out.offers[1].title = TitleTarget

\* C12: when the fetch fails (the request raises, or the status is no success),
\* search_products returns a result with strategy error and no offers without calling
\* an extractor or a miner, and extract_product_details returns None
C12_FetchFailureIsReturned ==
    FetchFails =>
        /\ fn.op = "search_products" =>
              /\ ~IsException(fn.out)
              /\ fn.out.strategy = "error"
              /\ fn.out.offers = <<>>
              /\ fn.calls = <<>>
        /\ fn.op = "extract_product_details" => fn.out = None

\* a response with status 404 whose page lists the product in its state and in JSON-LD
C12_Witness ==
    /\ fn.op = "search_products"
    /\ fn.fetch.status = 404
    /\ fn.max_offers = 1
    /\ fn.fetch.state = "listing"
    /\ Len(fn.fetch.listed) = 1
    /\ fn.fetch.listed[1].title = TitleTarget
    /\ fn.fetch.blocks = <<"product">>
    /\ fn.out.strategy = "error"
    /\ fn.out.offers = <<>>
    /\ fn.calls = <<>>

\* C28: a ScrapingResult search_products returns for max_offers >= 1 has a strategy
\* among preloaded_state, jsonld, no_offers and error, never the placeholder "none";
\* its offers are empty exactly when the strategy is no_offers or error; every offer
\* carries the strategy as its source; and there are at most max_offers offers.
C28_ScrapingResultConsistent ==
    (fn.op = "search_products" /\ fn.max_offers >= 1) =>
        /\ fn.out.strategy \in {"preloaded_state", "jsonld", "no_offers", "error"}
        /\ (fn.out.offers = <<>>) <=> (fn.out.strategy \in {"no_offers", "error"})
        /\ \A n \in 1..Len(fn.out.offers) : fn.out.offers[n].source = fn.out.strategy
        /\ Len(fn.out.offers) <= fn.max_offers

\* a state listing the product twice, of which max_offers = 1 keeps the first
C28_Witness ==
    /\ fn.op = "search_products"
    /\ fn.max_offers = 1
    /\ fn.fetch.raised = ""
    /\ fn.fetch.status = 200
    /\ fn.fetch.state = "listing"
    /\ Len(fn.fetch.listed) = 2
    /\ \A n \in 1..2 : fn.fetch.listed[n].title = TitleTarget
    /\ fn.out.strategy = "preloaded_state"
    /\ Len(fn.out.offers) = 1
    /\ fn.out.offers[1].source = "preloaded_state"

----------------------------------------------------------------------------
(* PricingIntelligenceAgent.run: calculate_statistics, determine_position, *)
(* generate_recommendation (backend/app/agents/pricing_intelligence.py)    *)
(* Prices are whole pesos; quartiles, median and fences are kept exactly,  *)
(* as numbers of quarter pesos.                                            *)

\* the k-th quartile (k = 1, 2, 3) of a sorted sample by linear interpolation between
\* the two nearest ranks, in quarter pesos
Quartile(sorted, k) ==
    LET h == k * (Len(sorted) - 1)
        below == sorted[h \div 4 + 1]
    IN IF h % 4 = 0 THEN 4 * below
       ELSE 4 * below + (h % 4) * (sorted[h \div 4 + 2] - below)

RECURSIVE Sum(_)
Sum(xs) == IF xs = <<>> THEN 0 ELSE Head(xs) + Sum(Tail(xs))

\* the statistics of a non-empty sample: quartiles, interquartile range, the sample
\* without the values outside [q1 - 1.5 IQR, q3 + 1.5 IQR], and how many were removed.
\* lower and upper are the fences in eighths of a peso; mean is sum / sample_size and
\* std_dev the root of variance / sample_size^2
calculate_stats_tool(prices) ==
    LET sorted == SortSeq(prices, LAMBDA a, b : a < b)
        q1 == Quartile(sorted, 1)
        q3 == Quartile(sorted, 3)
        iqr == q3 - q1
        lower == 2 * q1 - 3 * iqr
        upper == 2 * q3 + 3 * iqr
        trimmed == SelectSeq(prices, LAMBDA v : lower <= 8 * v /\ 8 * v <= upper)
    IN [success |-> TRUE,
        min |-> sorted[1],
        max |-> sorted[Len(sorted)],
        mean |-> [sum |-> Sum(prices), sample_size |-> Len(prices)],
        median |-> Quartile(sorted, 2),
        q1 |-> q1,
        q3 |-> q3,
        std_dev |-> [variance |-> Len(prices) * Sum([n \in 1..Len(prices) |-> prices[n] * prices[n]])
                                   - Sum(prices) * Sum(prices),
                     sample_size |-> Len(prices)],
        sample_size |-> Len(prices),
        lower |-> lower,
        upper |-> upper,
        trimmed |-> trimmed,
        outliers_removed |-> Len(prices) - Len(trimmed)]

\* how `await calculate_stats_tool(prices)` ends: with the statistics, with a result
\* that is no success, or with an exception
StatsToolOutcomes(prices) ==
    {calculate_stats_tool(prices), [success |-> FALSE], Exc("Exception", "calculate_stats_tool")}

\* PriceStatistics(min_price=stats_result["min"], ...)
PriceStatistics(stats_result) ==
    [min_price |-> stats_result.min,
     max_price |-> stats_result.max,
     mean_price |-> stats_result.mean,
     median_price |-> stats_result.median,
     p25 |-> stats_result.q1,
     p75 |-> stats_result.q3,
     std_dev |-> stats_result.std_dev,
     sample_size |-> stats_result.sample_size]

\* calculate_statistics that hands the cost price to the tool along with the prices
calculate_statistics_with_cost(state, stats_result) ==
    IF state.competitor_prices = <<>>
    THEN [state EXCEPT !.price_statistics = None]
    ELSE [state EXCEPT !.price_statistics =
             PriceStatistics(calculate_stats_tool(<<state.cost_price>> \o state.competitor_prices))]
\* calculate_statistics(state) when the tool, if it is called, ends with stats_result
calculate_statistics(state, stats_result) ==
    IF state.competitor_prices = <<>>
    THEN [state EXCEPT !.price_statistics = None]
    ELSE IF IsException(stats_result) THEN [state EXCEPT !.price_statistics = None]
    ELSE IF stats_result.success
    THEN [state EXCEPT !.price_statistics = PriceStatistics(stats_result)]
    ELSE [state EXCEPT !.price_statistics = None]

\* determine_position with exclusive comparisons
determine_position_exclusive(state) ==
    LET stats == state.price_statistics
        min_viable_price == state.cost_price * (100 + state.target_margin_percent)
    IN IF stats = None THEN [state |-> state, position |-> "none"]
       ELSE IF 4 * min_viable_price < 100 * stats.p25
       THEN [state |-> [state EXCEPT !.target_percentile = 25], position |-> "budget"]
       ELSE IF 4 * min_viable_price < 100 * stats.median_price
       THEN [state |-> [state EXCEPT !.target_percentile = 50], position |-> "competitive"]
       ELSE [state |-> [state EXCEPT !.target_percentile = 75], position |-> "premium"]
\* determine_position(state): the state it returns and the position it logs.
\* min_viable_price = cost * (1 + target_margin / 100) is kept in hundredths of a peso
determine_position(state) ==
    LET stats == state.price_statistics
        min_viable_price == state.cost_price * (100 + state.target_margin_percent)
    IN IF stats = None THEN [state |-> state, position |-> "none"]
       ELSE IF 4 * min_viable_price <= 100 * stats.p25
       THEN [state |-> [state EXCEPT !.target_percentile = 25], position |-> "budget"]
       ELSE IF 4 * min_viable_price <= 100 * stats.median_price
       THEN [state |-> [state EXCEPT !.target_percentile = 50], position |-> "competitive"]
       ELSE [state |-> [state EXCEPT !.target_percentile = 75], position |-> "premium"]

\* how `await generate_recommendation_tool(...)` ends: with a recommendation for some
\* percentile, with a result that is no success, or with an exception
RecommendationToolOutcomes(target_percentile) ==
    {[success |-> TRUE, target_percentile |-> target_percentile],
     [success |-> FALSE],
     Exc("Exception", "generate_recommendation_tool")}

\* generate_recommendation(state) when the tool, if it is called, ends with rec_result
generate_recommendation(state, rec_result) ==
    IF state.price_statistics = None THEN [state EXCEPT !.recommendation = None]
    ELSE IF IsException(rec_result) THEN [state EXCEPT !.recommendation = None]
    ELSE IF rec_result.success
    THEN [state EXCEPT !.recommendation =
             [kind |-> "PricingRecommendation", target_percentile |-> rec_result.target_percentile]]
    ELSE [state EXCEPT !.recommendation = None]

\* initial_state of run
InitialState(cost_price, competitor_prices, target_margin_percent) ==
    [cost_price |-> cost_price,
     competitor_prices |-> competitor_prices,
     price_statistics |-> None,
     recommendation |-> None,
     target_margin_percent |-> target_margin_percent,
     target_percentile |-> 50]

\* the sample prices of run_analysis_locally
SamplePrices ==
    <<2350, 2449, 2524, 2599, 2674, 2699, 2724, 2799, 2849, 2874, 2924, 2949, 2974, 2999, 3049>>

\* margins are multiples of 25 percent up to MaxQuarters of them: 1 + margin / 100 and
\* its product with the costs below are exact in binary floating point
MaxQuarters == 4

\* the competitor prices of a run
PricePool ==
    {<<>>, SamplePrices, <<100>>, <<100, 200>>, <<110, 110, 120, 130, 150>>,
     <<130, 110, 150, 120, 110>>, <<100, 100, 100, 100, 1000>>, <<5, 100, 101, 102, 103, 104>>}

\* the cost prices of a run
CostPool == {88, 96, 110, 120, 2000}

InitPricing ==
    /\ NoPipeline
    /\ fn \in {[op |-> "args", cost_price |-> c, competitor_prices |-> ps,
                target_margin_percent |-> 25 * q] :
                   c \in CostPool, ps \in PricePool, q \in 0..MaxQuarters}

\* run(...) up to graph.ainvoke(initial_state); raised is the exception that ends the
\* run, None as long as there is none
Run ==
    /\ fn.op = "args"
    /\ fn' = [op |-> "run",
              state |-> InitialState(fn.cost_price, fn.competitor_prices,
                                     fn.target_margin_percent),
              stats_result |-> None, position |-> "none", raised |-> None]
    /\ UNCHANGED pipeline_vars

\* the node calculate_statistics
CalculateStatistics ==
    /\ fn.op = "run"
    /\ \E stats_result \in IF fn.state.competitor_prices = <<>> THEN {None}
                           ELSE StatsToolOutcomes(fn.state.competitor_prices) :
         fn' = [fn EXCEPT !.op = "calculate_statistics",
                          !.state = calculate_statistics(fn.state, stats_result),
                          !.stats_result = stats_result]
    /\ UNCHANGED pipeline_vars

\* the node determine_position
DeterminePosition ==
    /\ fn.op = "calculate_statistics"
    /\ \E done \in {determine_position(fn.state)} :
          fn' = [fn EXCEPT !.op = "determine_position", !.state = done.state,
                           !.position = done.position]
    /\ UNCHANGED pipeline_vars

\* the node generate_recommendation
GenerateRecommendation ==
    /\ fn.op = "determine_position"
    /\ \E rec_result \in IF fn.state.price_statistics = None THEN {None}
                         ELSE RecommendationToolOutcomes(fn.state.target_percentile) :
          fn' = [fn EXCEPT !.op = "generate_recommendation",
                           !.state = generate_recommendation(fn.state, rec_result)]
    /\ UNCHANGED pipeline_vars

\* graph.ainvoke returns final_state and run returns it
RunReturn ==
    /\ fn.op = "generate_recommendation"
    /\ fn' = [fn EXCEPT !.op = "returned"]
    /\ UNCHANGED pipeline_vars

NextPricing ==
    \/ Run
    \/ CalculateStatistics
    \/ DeterminePosition
    \/ GenerateRecommendation
    \/ RunReturn

SpecPricing == InitPricing /\ [][NextPricing]_vars

\* the node determine_position has run on a state holding statistics
Positioned == fn.op = "determine_position" /\ fn.state.price_statistics # None

\* min_viable_price of the run, in hundredths of a peso
MinViablePrice == fn.state.cost_price * (100 + fn.state.target_margin_percent)

\* C21: determine_position sets the target percentile to 25 (budget) when
\* min_viable_price <= p25, otherwise to 50 (competitive) when min_viable_price <= median,
\* otherwise to 75 (premium); a min_viable_price equal to p25 gives 25 and one equal to
\* the median gives 50
C21_PositionByInclusiveComparison ==
    Positioned =>
        LET p25 == fn.state.price_statistics.p25
            median == fn.state.price_statistics.median_price
        IN /\ (4 * MinViablePrice <= 100 * p25) =>
                  (fn.state.target_percentile = 25 /\ fn.position = "budget")
           /\ (4 * MinViablePrice > 100 * p25 /\ 4 * MinViablePrice <= 100 * median) =>
                  (fn.state.target_percentile = 50 /\ fn.position = "competitive")
           /\ (4 * MinViablePrice > 100 * median) =>
                  (fn.state.target_percentile = 75 /\ fn.position = "premium")

\* min_viable_price is exactly p25, below the median, and the position is budget
C21_Witness ==
    /\ Positioned
    /\ 4 * MinViablePrice = 100 * fn.state.price_statistics.p25
    /\ fn.state.price_statistics.p25 < fn.state.price_statistics.median_price
    /\ fn.state.target_margin_percent > 0
    /\ fn.state.target_percentile = 25
    /\ fn.position = "budget"

\* C22: for the sample prices the quartiles by linear interpolation are 2636.5, 2799
\* and 2936.5, every price lies within [q1 - 1.5 IQR, q3 + 1.5 IQR], no outlier is
\* removed and the trimmed sample is the full sample
C22_SampleHasNoOutliers ==
    (/\ fn.op = "calculate_statistics"
     /\ fn.state.competitor_prices = SamplePrices
     /\ fn.state.price_statistics # None) =>
        LET p25 == fn.state.price_statistics.p25
            p75 == fn.state.price_statistics.p75
        IN /\ p25 = 4 * 2636 + 2
           /\ fn.state.price_statistics.median_price = 4 * 2799
           /\ p75 = 4 * 2936 + 2
           /\ fn.state.price_statistics.sample_size = Len(SamplePrices)
           /\ \A n \in 1..Len(SamplePrices) :
                 /\ 2 * p25 - 3 * (p75 - p25) <= 8 * SamplePrices[n]
                 /\ 8 * SamplePrices[n] <= 2 * p75 + 3 * (p75 - p25)
           /\ fn.stats_result.outliers_removed = 0
           /\ fn.stats_result.trimmed = SamplePrices

\* the statistics of the sample prices have been computed
C22_Witness ==
    /\ fn.op = "calculate_statistics"
    /\ fn.state.competitor_prices = SamplePrices
    /\ fn.state.price_statistics # None
    /\ fn.state.price_statistics.sample_size = 15
    /\ fn.stats_result.outliers_removed = 0

\* C23: a run on an empty price collection ends with the error StatisticsUnavailable,
\* not with a result that reports no error
C23_EmptyPricesFail ==
    (fn.op = "returned" /\ fn.state.competitor_prices = <<>>) =>
        /\ IsException(fn.raised)
        /\ fn.raised.exc_type = "StatisticsUnavailable"

----------------------------------------------------------------------------
(* ProductMatchingAgent.execute: receive_offers, classify_products,        *)
(* filter_comparable.  An offer is its title, the one field the three      *)
(* nodes read to decide.  The batches whose model call raises are part of  *)
(* the input; what the model answers when it returns is chosen at each     *)
(* call.  Two executions on the same input follow one another.             *)

\* texts chain.ainvoke may return: an empty answer, one that calls every offer an
\* accessory, one that calls every offer comparable
ResponseEmpty == <<"[","]">>
ResponseAccessory == <<"a","c","c","e","s","s","o","r","y">>
ResponseComparable == <<"c","o","m","p","a","r","a","b","l","e">>
ResponsePool == {ResponseEmpty, ResponseAccessory, ResponseComparable}

\* the loop over a batch if it took the verdict from the response
classify_batch_by_response(b, response) ==
    [j \in 1..Len(b) |->
        IF response = ResponseEmpty THEN ClassifyOffer(b[j])
        ELSE [title |-> b[j],
              is_comparable |-> response = ResponseComparable,
              is_accessory |-> response = ResponseAccessory,
              is_bundle |-> FALSE]]

\* the body of the try block after `response = await chain.ainvoke(...)`: the loop
\* over the batch, which never reads response
classify_batch(b, response) == ClassifyBatchOffers(b)

\* initial_state of execute
MatchingInitialState(target_product, raw_offers) ==
    [target_product |-> target_product,
     raw_offers |-> raw_offers,
     classified_offers |-> <<>>,
     comparable_offers |-> <<>>,
     excluded_count |-> 0,
     errors |-> <<>>]

receive_offers(state) ==
    [state EXCEPT !.classified_offers = <<>>,
                  !.comparable_offers = <<>>,
                  !.excluded_count = 0,
                  !.errors = IF state.raw_offers = <<>>
                             THEN Append(@, "No offers received from scraper")
                             ELSE @]

filter_comparable(state) ==
    LET comparable_offers == FilterComparable(state.raw_offers, state.classified_offers)
    IN [state EXCEPT !.comparable_offers = comparable_offers,
                     !.excluded_count = Len(state.raw_offers) - Len(comparable_offers)]

\* the mapping execute builds from final_state
ExecuteResult(final_state) ==
    [target_product |-> final_state.target_product,
     total_offers |-> Len(final_state.raw_offers),
     comparable_offers |-> final_state.comparable_offers,
     comparable_count |-> Len(final_state.comparable_offers),
     excluded_count |-> final_state.excluded_count,
     classifications |-> final_state.classified_offers,
     errors |-> final_state.errors]

\* the offer lists handed to execute
RawOfferLists == UNION {[1..n -> TitlePool] : n \in 0..MaxOffers}

InitMatching ==
    /\ NoPipeline
    /\ fn \in {[op |-> "args", target_product |-> TitleSony, raw_offers |-> offers,
                raises |-> raises] :
                   offers \in RawOfferLists,
                   raises \in SUBSET (0..(MaxOffers - 1) \div BatchSize)}
    /\ fn.raises \subseteq 0..(NumBatches(fn.raw_offers) - 1)

\* execute(target_product, raw_offers) up to the end of the node receive_offers
Execute ==
    /\ fn.op = "args"
    /\ fn' = [op |-> "classify_products",
              target_product |-> fn.target_product,
              raw_offers |-> fn.raw_offers,
              raises |-> fn.raises,
              run |-> 1,
              first |-> None,
              state |-> receive_offers(MatchingInitialState(fn.target_product, fn.raw_offers)),
              i |-> 0,
              all_classifications |-> <<>>,
              heard |-> <<<<>>, <<>>>>,
              out |-> None]
    /\ UNCHANGED pipeline_vars

\* the state when the loop of classify_products has ended
ClassificationCompleted(f) ==
    IF f.i < NumBatches(f.raw_offers) THEN f
    ELSE [f EXCEPT !.op = "filter_comparable",
                   !.state.classified_offers = f.all_classifications]

\* classify_products without offers: the loop has no iteration
ClassifyNothing ==
    /\ fn.op = "classify_products"
    /\ NumBatches(fn.raw_offers) = 0
    /\ fn' = ClassificationCompleted(fn)
    /\ UNCHANGED pipeline_vars

\* one iteration of the loop of classify_products: the call raises, or it returns a
\* response and the batch is classified; after the last iteration the node ends
ClassifyProducts ==
    /\ fn.op = "classify_products"
    /\ fn.i < NumBatches(fn.raw_offers)
    /\ \/ /\ fn.i \in fn.raises
          /\ fn' = ClassificationCompleted(
                      [fn EXCEPT !.i = @ + 1,
                                 !.state.errors = Append(@, "Classification error")])
       \/ /\ fn.i \notin fn.raises
          /\ \E response \in ResponsePool :
                \E done \in {classify_batch(BatchOf(fn.raw_offers, fn.i), response)} :
                   fn' = ClassificationCompleted(
                            [fn EXCEPT !.i = @ + 1,
                                       !.all_classifications = @ \o done,
                                       !.heard[fn.run] = Append(@, response)])
    /\ UNCHANGED pipeline_vars

\* the node filter_comparable
FilterComparableOffers ==
    /\ fn.op = "filter_comparable"
    /\ fn' = [fn EXCEPT !.op = "filtered", !.state = filter_comparable(fn.state)]
    /\ UNCHANGED pipeline_vars

\* execute returns the mapping built from final_state
ExecuteReturn ==
    /\ fn.op = "filtered"
    /\ fn' = [fn EXCEPT !.op = "returned", !.out = ExecuteResult(fn.state)]
    /\ UNCHANGED pipeline_vars

\* a second execute on the same target and offers, the same batches raising
ExecuteAgain ==
    /\ fn.op = "returned"
    /\ fn.run = 1
    /\ fn' = [fn EXCEPT !.op = "classify_products",
                        !.run = 2,
                        !.first = fn.out,
                        !.state = receive_offers(MatchingInitialState(fn.target_product, fn.raw_offers)),
                        !.i = 0,
                        !.all_classifications = <<>>,
                        !.out = None]
    /\ UNCHANGED pipeline_vars

NextMatching ==
    \/ Execute
    \/ ClassifyNothing
    \/ ClassifyProducts
    \/ FilterComparableOffers
    \/ ExecuteReturn
    \/ ExecuteAgain

SpecMatching == InitMatching /\ [][NextMatching]_vars

\* positions of raw_offers whose batch was classified, i.e. whose model call returned
ClassifiedPositions ==
    {n \in 1..Len(fn.raw_offers) : (n - 1) \div BatchSize \notin fn.raises}

\* the lowercased title holds an accessory or a bundle keyword
HasKeyword(title) ==
    \E w \in AccessoryWords \cup BundleWords : Contains(Lower(title), w)

RECURSIVE IsSubsequence(_, _)
\* s can be obtained from t by dropping elements
IsSubsequence(s, t) ==
    IF s = <<>> THEN TRUE
    ELSE IF t = <<>> THEN FALSE
    ELSE IF Head(s) = Head(t) THEN IsSubsequence(Tail(s), Tail(t))
    ELSE IsSubsequence(s, Tail(t))

\* C29: execute partitions its input: comparable_offers is a subsequence of raw_offers,
\* comparable_count + excluded_count = total_offers, and when the model call of a
\* batch raises, the offers of that batch are counted as excluded, the later batches
\* are classified, and execute returns with one error listed for each such batch.
C29_ExecutePartitionsOffers ==
    fn.op = "returned" =>
        /\ IsSubsequence(fn.out.comparable_offers, fn.raw_offers)
        /\ fn.out.total_offers = Len(fn.raw_offers)
        /\ fn.out.comparable_count = Len(fn.out.comparable_offers)
        /\ fn.out.comparable_count + fn.out.excluded_count = fn.out.total_offers
        /\ Len(fn.out.classifications) = Cardinality(ClassifiedPositions)
        /\ fn.raw_offers # <<>> => Len(fn.out.errors) = Cardinality(fn.raises)
        /\ fn.out.excluded_count =
              Cardinality({n \in 1..Len(fn.raw_offers) :
                              n \notin ClassifiedPositions \/ HasKeyword(fn.raw_offers[n])})

====
